---- MODULE Spec2Model ----
(***************************************************************************)
(* A model of the calculator of src/main.py: the expression engine         *)
(* (CalculatorEngine), the memory and history containers (MemoryManager)   *)
(* and the handlers of the window (AdvancedCalculator) that drive them.    *)
(*                                                                         *)
(* Text is a sequence of one-character strings, so that the regular        *)
(* expressions, the joins and the splits of the code act on characters as  *)
(* they do in Python.                                                      *)
(***************************************************************************)
EXTENDS Integers, Sequences, FiniteSets, TLC

VARIABLES
    display,          \* text of the entry widget self.display
    cursor,           \* insertion cursor of self.display (0 .. Len(display))
    result_display,   \* text of the read-only widget self.result_display
    angle_mode,       \* CalculatorEngine.angle_mode
    memory_register,  \* MemoryManager.memory_register
    memory,           \* MemoryManager.memory, a list of MemoryItem
    history,          \* MemoryManager.history, a list of entries
    memory_file,      \* content of calculator_memory.json
    history_file,     \* content of the text file chosen in the file dialog
    clock,            \* the wall clock read by datetime.datetime.now()
    last_op,          \* the handler that ran last, and how it ended
    call,             \* the last call of CalculatorEngine.evaluate
    current_mode,     \* AdvancedCalculator.current_mode, a CalculationMode
    number_system,    \* the radio buttons self.number_system: DEC, HEX, OCT, BIN
    word_size,        \* the radio buttons self.word_size: QWORD, DWORD, WORD, BYTE
    eval_call         \* the last call of eval made by calculate: its argument

vars == <<display, cursor, result_display, angle_mode, memory_register, memory,
          history, memory_file, history_file, clock, last_op, call, current_mode,
          number_system, word_size, eval_call>>

(***************************************************************************)
(* Characters                                                              *)
(***************************************************************************)
Digits == {"0", "1", "2", "3", "4", "5", "6", "7", "8", "9"}

Letters == {"a", "b", "c", "d", "e", "f", "g", "h", "i", "j", "k", "l", "m",
            "n", "o", "p", "q", "r", "s", "t", "u", "v", "w", "x", "y", "z",
            "A", "B", "C", "D", "E", "F", "G", "H", "I", "J", "K", "L", "M",
            "N", "O", "P", "Q", "R", "S", "T", "U", "V", "W", "X", "Y", "Z"}

\* The class \w of Python's re module, on ASCII text.
IsWordChar(c) == c \in Letters \cup Digits \cup {"_"}

NL == "\n"

\* str.isspace on the characters the model uses.
IsSpace(c) == c \in {" ", NL, "\t"}

\* s.startswith(t, i - 1)
StartsWithAt(s, t, i) ==
    /\ i + Len(t) - 1 <= Len(s)
    /\ SubSeq(s, i, i + Len(t) - 1) = t

\* t in s
Contains(s, t) == \E i \in 1..(Len(s) + 1) : StartsWithAt(s, t, i)

(***************************************************************************)
(* CalculatorEngine: the constant table and its textual substitution       *)
(***************************************************************************)
\* A table in which the text of one constant spells the name of another.
constants_chained == <<
    [name |-> <<"p", "i">>, text |-> <<"3">>],
    [name |-> <<"e">>, text |-> <<"p", "i">>],
    [name |-> <<"p", "h", "i">>, text |-> <<"1">>],
    [name |-> <<"t", "a", "u">>, text |-> <<"6">>],
    [name |-> <<"i", "n", "f">>, text |-> <<"i", "n", "f">>] >>

\* str(math.pi), str(math.e), str((1 + math.sqrt(5)) / 2), str(2 * math.pi)
\* and str(float('inf')): the text re.sub puts in place of each name.
constants == <<
    [name |-> <<"p", "i">>,
     text |-> <<"3", ".", "1", "4", "1", "5", "9", "2", "6", "5", "3", "5", "8", "9", "7", "9", "3">>],
    [name |-> <<"e">>,
     text |-> <<"2", ".", "7", "1", "8", "2", "8", "1", "8", "2", "8", "4", "5", "9", "0", "4", "5">>],
    [name |-> <<"p", "h", "i">>,
     text |-> <<"1", ".", "6", "1", "8", "0", "3", "3", "9", "8", "8", "7", "4", "9", "8", "9", "5">>],
    [name |-> <<"t", "a", "u">>,
     text |-> <<"6", ".", "2", "8", "3", "1", "8", "5", "3", "0", "7", "1", "7", "9", "5", "8", "6">>],
    [name |-> <<"i", "n", "f">>,
     text |-> <<"i", "n", "f">>] >>

\* A match of the name alone, as a pattern without \b would find it.
word_match_unbounded(name, s, i) == StartsWithAt(s, name, i)

\* A match of r'\b' + name + r'\b' at position i of s: the name, with no word
\* character right before it and none right after it.
word_match(name, s, i) ==
    /\ StartsWithAt(s, name, i)
    /\ (i = 1 \/ ~IsWordChar(s[i - 1]))
    /\ (i + Len(name) > Len(s) \/ ~IsWordChar(s[i + Len(name)]))

\* re.sub(r'\b' + name + r'\b', repl, s): the leftmost non-overlapping
\* matches, found on the original text, each replaced by repl.
RECURSIVE word_sub_from(_, _, _, _)
word_sub_from(name, repl, s, i) ==
    IF i > Len(s) THEN <<>>
    ELSE IF word_match(name, s, i)
         THEN repl \o word_sub_from(name, repl, s, i + Len(name))
         ELSE <<s[i]>> \o word_sub_from(name, repl, s, i + 1)

word_sub(name, repl, s) == word_sub_from(name, repl, s, 1)

\* The loop over self.constants.items(), in the order of the table.
RECURSIVE substitute_from(_, _)
substitute_from(expression, k) ==
    IF k > Len(constants) THEN expression
    ELSE substitute_from(
             word_sub(constants[k].name, constants[k].text, expression), k + 1)

\* A loop that starts at the second row of the table.
substitute_constants_from_second(expression) == substitute_from(expression, 2)

substitute_constants(expression) == substitute_from(expression, 1)

(***************************************************************************)
(* CalculatorEngine._handle_special_functions                              *)
(***************************************************************************)
trig_funcs == << <<"s", "i", "n">>, <<"c", "o", "s">>, <<"t", "a", "n">>,
                 <<"c", "o", "t">>, <<"s", "e", "c">>, <<"c", "s", "c">> >>

\* The text of the replacement template after the group: ' * pi/180'.
deg_factor == <<" ", "*", " ", "p", "i", "/", "1", "8", "0">>

\* The index of the last ')' of s at or after i, or 0: a greedy group.
last_close(s, i) ==
    IF \E c \in i..Len(s) : s[c] = ")"
    THEN CHOOSE c \in i..Len(s) : s[c] = ")" /\ \A d \in (c + 1)..Len(s) : s[d] # ")"
    ELSE 0

\* The index of the first ')' of s at or after i, or 0.
RECURSIVE first_close(_, _)
first_close(s, i) ==
    IF i > Len(s) THEN 0
    ELSE IF s[i] = ")" THEN i ELSE first_close(s, i + 1)

\* A match of func\(([^\)]+)\) at position i: the name, '(', one or more
\* characters that are not ')', and the first ')'. The value is the index of
\* that ')', or 0 when there is no match at i.
trig_match(func, s, i) ==
    LET open == i + Len(func)
        close == first_close(s, open + 1)
    IN IF StartsWithAt(s, func \o <<"(">>, i) /\ close > open + 1
       THEN close ELSE 0

\* re.sub(pattern, r'func(\1 * pi/180)', s)
RECURSIVE trig_sub_from(_, _, _)
trig_sub_from(func, s, i) ==
    IF i > Len(s) THEN <<>>
    ELSE LET close == trig_match(func, s, i)
         IN IF close > 0
            THEN SubSeq(s, i, close - 1) \o deg_factor \o <<")">>
                     \o trig_sub_from(func, s, close + 1)
            ELSE <<s[i]>> \o trig_sub_from(func, s, i + 1)

trig_sub(func, s) == trig_sub_from(func, s, 1)

RECURSIVE trig_loop(_, _)
trig_loop(expression, k) ==
    IF k > Len(trig_funcs) THEN expression
    ELSE trig_loop(trig_sub(trig_funcs[k], expression), k + 1)

\* A conversion to degrees that stays switched on once a call has used it.
handle_special_functions_latched(expression, mode) ==
    IF mode = "degrees" \/ (call.pc = "done" /\ call.handed # call.substituted)
    THEN trig_loop(expression, 1)
    ELSE expression

handle_special_functions(expression, mode) ==
    IF mode = "degrees" THEN trig_loop(expression, 1) ELSE expression

(***************************************************************************)
(* Numbers.  A real value is an exact fraction n/d (d > 0, lowest terms)   *)
(* while it stays small, and an uninterpreted real ("opq") otherwise: the  *)
(* value of a transcendental function, of a long literal, of a big product.*)
(* The other kinds are the non-real values of the algebra library: zoo     *)
(* (complex infinity), nan, oo, a complex number, a symbolic expression.   *)
(***************************************************************************)
MaxExact == 30000

MaxLiteralDigits == 5

Abs(x) == IF x < 0 THEN -x ELSE x

RECURSIVE Gcd(_, _)
Gcd(a, b) == IF b = 0 THEN a ELSE Gcd(b, a % b)

Val(k) == [k |-> k, n |-> 0, d |-> 1]

Opaque == Val("opq")

\* The fraction n/d, d # 0, in lowest terms.
Rat(n, d) ==
    LET g == Gcd(Abs(n), Abs(d))
        sn == IF d < 0 THEN -n ELSE n
    IN IF Abs(n) > MaxExact \/ Abs(d) > MaxExact THEN Opaque
       ELSE [k |-> "num", n |-> sn \div g, d |-> Abs(d) \div g]

IsReal(v) == v.k \in {"num", "opq"}

IsZero(v) == v.k = "num" /\ v.n = 0

\* The kind of a sum, difference or product with an operand that is not an
\* exact fraction.
mixed_kind(a, b, op) ==
    IF "sym" \in {a.k, b.k} THEN Val("sym")
    ELSE IF "nan" \in {a.k, b.k} THEN Val("nan")
    ELSE IF "cpx" \in {a.k, b.k} THEN Val("cpx")
    ELSE IF a.k \in {"zoo", "oo"} /\ b.k \in {"zoo", "oo"}
         THEN IF op = "*" THEN Val("zoo") ELSE Val("nan")
    ELSE IF a.k \in {"zoo", "oo"} \/ b.k \in {"zoo", "oo"}
         THEN IF op = "*" /\ (IsZero(a) \/ IsZero(b)) THEN Val("nan")
              ELSE IF a.k \in {"zoo", "oo"} THEN Val(a.k) ELSE Val(b.k)
    ELSE IF op = "*" /\ (IsZero(a) \/ IsZero(b)) THEN Rat(0, 1)
    ELSE Opaque

num_add(a, b) ==
    IF a.k = "num" /\ b.k = "num" THEN Rat(a.n * b.d + b.n * a.d, a.d * b.d)
    ELSE mixed_kind(a, b, "+")

num_neg(a) == IF a.k = "num" THEN Rat(-a.n, a.d) ELSE a

num_sub(a, b) == num_add(a, num_neg(b))

num_mul(a, b) ==
    IF a.k = "num" /\ b.k = "num" THEN Rat(a.n * b.n, a.d * b.d)
    ELSE mixed_kind(a, b, "*")

\* 1/b: 1/0 is zoo, 1/zoo and 1/oo are 0.
num_inv(b) ==
    IF b.k = "num" THEN (IF b.n = 0 THEN Val("zoo") ELSE Rat(b.d, b.n))
    ELSE IF b.k \in {"zoo", "oo"} THEN Rat(0, 1)
    ELSE b

num_div(a, b) == num_mul(a, num_inv(b))

\* floor(a/b) of a // b
num_floordiv(a, b) ==
    LET q == num_div(a, b)
    IN IF q.k = "num" THEN Rat(q.n \div q.d, 1) ELSE q

RECURSIVE int_pow(_, _)
int_pow(a, e) == IF e = 0 THEN Rat(1, 1) ELSE num_mul(a, int_pow(a, e - 1))

MaxExponent == 6

num_pow(a, b) ==
    IF a.k = "num" /\ b.k = "num" /\ b.d = 1 /\ Abs(b.n) <= MaxExponent
    THEN IF b.n >= 0 THEN int_pow(a, b.n) ELSE num_inv(int_pow(a, -b.n))
    ELSE mixed_kind(a, b, "^")

(***************************************************************************)
(* The external evaluator, sp.sympify(expression).evalf(), on the infix     *)
(* notation the model's inputs use: decimal literals, names, calls of one  *)
(* argument, parentheses, unary + and -, the operators + - * / // ** and ^  *)
(* with Python's precedence.  Text outside this notation is a parse error. *)
(***************************************************************************)
NoExc == [type |-> "", msg |-> ""]

Ok(v, i) == [ok |-> TRUE, v |-> v, i |-> i, exc |-> NoExc]

Fail(type, msg) ==
    [ok |-> FALSE, v |-> Val("none"), i |-> 0, exc |-> [type |-> type, msg |-> msg]]

SyntaxFail == Fail("SympifyError", "could not parse")

RECURSIVE skip_space(_, _)
skip_space(s, i) ==
    IF i <= Len(s) /\ s[i] = " " THEN skip_space(s, i + 1) ELSE i

\* The index after the run of characters of class cls that starts at i.
RECURSIVE run_end(_, _, _)
run_end(s, i, cls) ==
    IF i <= Len(s) /\ s[i] \in cls THEN run_end(s, i + 1, cls) ELSE i

Digits_seq == <<"0", "1", "2", "3", "4", "5", "6", "7", "8", "9">>

DigitValue(c) == CHOOSE n \in 0..9 : Digits_seq[n + 1] = c

\* The number written by the digits s[i .. j-1].
RECURSIVE digits_value(_, _, _)
digits_value(s, i, j) ==
    IF j <= i THEN 0 ELSE 10 * digits_value(s, i, j - 1) + DigitValue(s[j - 1])

RECURSIVE pow10(_)
pow10(k) == IF k = 0 THEN 1 ELSE 10 * pow10(k - 1)

\* A decimal literal at i: digits, an optional point and digits, an optional
\* exponent.  A decimal integer with a leading zero is an error of Python's
\* grammar unless it is all zeros.
parse_number(s, i) ==
    LET j == run_end(s, i, Digits)
        point == j <= Len(s) /\ s[j] = "."
        k == IF point THEN run_end(s, j + 1, Digits) ELSE j
        ndigits == (j - i) + (IF point THEN k - (j + 1) ELSE 0)
        hasexp == /\ k <= Len(s) /\ s[k] \in {"e", "E"}
                  /\ LET m == IF k + 1 <= Len(s) /\ s[k + 1] \in {"+", "-"}
                              THEN k + 2 ELSE k + 1
                     IN run_end(s, m, Digits) > m
        m0 == IF k + 1 <= Len(s) /\ s[k + 1] \in {"+", "-"} THEN k + 2 ELSE k + 1
        last == IF hasexp THEN run_end(s, m0, Digits) ELSE k
        mant == IF point
                THEN Rat(digits_value(s, i, j) * pow10(k - (j + 1))
                             + digits_value(s, j + 1, k), pow10(k - (j + 1)))
                ELSE Rat(digits_value(s, i, j), 1)
    IN IF ndigits = 0 THEN SyntaxFail
       ELSE IF ~point /\ ~hasexp /\ j - i > 1 /\ s[i] = "0"
               /\ \E q \in i..(j - 1) : s[q] # "0"
            THEN SyntaxFail
       ELSE IF ndigits > MaxLiteralDigits \/ hasexp THEN Ok(Opaque, last)
       ELSE Ok(mant, last)

\* The functions of one real argument the library knows by these names.
known_functions ==
    { <<"s", "i", "n">>, <<"c", "o", "s">>, <<"t", "a", "n">>, <<"c", "o", "t">>,
      <<"s", "e", "c">>, <<"c", "s", "c">>, <<"a", "s", "i", "n">>,
      <<"a", "c", "o", "s">>, <<"a", "t", "a", "n">>, <<"s", "q", "r", "t">>,
      <<"l", "o", "g">>, <<"e", "x", "p">>, <<"a", "b", "s">>,
      <<"s", "i", "n", "h">>, <<"c", "o", "s", "h">>, <<"t", "a", "n", "h">> }

zero_at_zero ==
    { <<"s", "i", "n">>, <<"t", "a", "n">>, <<"a", "s", "i", "n">>,
      <<"a", "t", "a", "n">>, <<"s", "q", "r", "t">>, <<"s", "i", "n", "h">>,
      <<"t", "a", "n", "h">>, <<"a", "b", "s">> }

one_at_zero ==
    { <<"c", "o", "s">>, <<"s", "e", "c">>, <<"e", "x", "p">>, <<"c", "o", "s", "h">> }

\* f(v) for a name f followed by '(' argument ')'.
apply_function(f, v) ==
    IF f \notin known_functions THEN Val("sym")
    ELSE IF v.k = "sym" THEN Val("sym")
    ELSE IF ~IsReal(v) THEN Val("nan")
    ELSE IF f = <<"a", "b", "s">> /\ v.k = "num" THEN Rat(Abs(v.n), v.d)
    ELSE IF IsZero(v) /\ f \in zero_at_zero THEN Rat(0, 1)
    ELSE IF IsZero(v) /\ f \in one_at_zero THEN Rat(1, 1)
    ELSE IF IsZero(v) THEN Val("zoo")
    ELSE Opaque

\* A name that stands alone.
name_value(f, j) ==
    IF f = <<"p", "i">> \/ f = <<"E">> THEN Ok(Opaque, j)
    ELSE IF f = <<"I">> THEN Ok(Val("cpx"), j)
    ELSE IF f = <<"o", "o">> THEN Ok(Val("oo"), j)
    ELSE IF f = <<"z", "o", "o">> THEN Ok(Val("zoo"), j)
    ELSE IF f = <<"n", "a", "n">> THEN Ok(Val("nan"), j)
    ELSE IF f \in known_functions
         THEN Fail("TypeError", "unsupported operand type")
    ELSE Ok(Val("sym"), j)

RECURSIVE parse_expr(_, _), parse_expr_rest(_, _, _), expr_apply(_, _, _, _),
          parse_term(_, _), parse_term_rest(_, _, _), term_apply(_, _, _, _),
          parse_unary(_, _), parse_power(_, _), power_rest(_, _),
          parse_primary(_, _)

\* The closing parenthesis after the parsed argument a; f is the name of the
\* function called, or <<>> for a parenthesised expression.
expect_close(s, f, a) ==
    IF ~a.ok THEN a
    ELSE LET c == skip_space(s, a.i)
         IN IF c <= Len(s) /\ s[c] = ")"
            THEN Ok(IF f = <<>> THEN a.v ELSE apply_function(f, a.v), c + 1)
            ELSE SyntaxFail

name_at(s, f, j) ==
    LET p == skip_space(s, j)
        q == skip_space(s, p + 1)
    IN IF p <= Len(s) /\ s[p] = "("
       THEN IF q <= Len(s) /\ s[q] = ")"
            THEN IF f \in known_functions
                 THEN Fail("TypeError", "takes exactly 1 argument (0 given)")
                 ELSE Ok(Val("sym"), q + 1)
            ELSE expect_close(s, f, parse_expr(s, p + 1))
       ELSE name_value(f, j)

parse_primary(s, i0) ==
    LET i == skip_space(s, i0)
        j == run_end(s, i, Letters \cup Digits \cup {"_"})
    IN IF i > Len(s) THEN SyntaxFail
       ELSE IF s[i] \in Digits \cup {"."} THEN parse_number(s, i)
       ELSE IF s[i] \in Letters \cup {"_"} THEN name_at(s, SubSeq(s, i, j - 1), j)
       ELSE IF s[i] = "(" THEN expect_close(s, <<>>, parse_expr(s, i + 1))
       ELSE SyntaxFail

power_apply(p, e) == IF ~e.ok THEN e ELSE Ok(num_pow(p.v, e.v), e.i)

power_rest(s, p) ==
    IF ~p.ok THEN p
    ELSE LET j == skip_space(s, p.i)
             w == IF StartsWithAt(s, <<"*", "*">>, j) THEN 2
                  ELSE IF StartsWithAt(s, <<"^">>, j) THEN 1 ELSE 0
         IN IF w = 0 THEN p ELSE power_apply(p, parse_unary(s, j + w))

parse_power(s, i) == power_rest(s, parse_primary(s, i))

unary_apply(sign, u) ==
    IF ~u.ok THEN u ELSE Ok(IF sign = "-" THEN num_neg(u.v) ELSE u.v, u.i)

parse_unary(s, i0) ==
    LET i == skip_space(s, i0)
    IN IF i <= Len(s) /\ s[i] \in {"-", "+"}
       THEN unary_apply(s[i], parse_unary(s, i + 1))
       ELSE parse_power(s, i)

term_apply(s, op, acc, u) ==
    IF ~u.ok THEN u
    ELSE IF op = "//" /\ IsZero(u.v) THEN Fail("ZeroDivisionError", "division by zero")
    ELSE parse_term_rest(s, u.i,
             IF op = "//" THEN num_floordiv(acc, u.v)
             ELSE IF op = "*" THEN num_mul(acc, u.v) ELSE num_div(acc, u.v))

parse_term_rest(s, i0, acc) ==
    LET i == skip_space(s, i0)
        op == IF StartsWithAt(s, <<"/", "/">>, i) THEN "//"
              ELSE IF i <= Len(s) /\ s[i] \in {"*", "/"} THEN s[i] ELSE ""
    IN IF op = "" THEN Ok(acc, i)
       ELSE term_apply(s, op, acc, parse_unary(s, i + (IF op = "//" THEN 2 ELSE 1)))

term_start(s, u) == IF ~u.ok THEN u ELSE parse_term_rest(s, u.i, u.v)

parse_term(s, i) == term_start(s, parse_unary(s, i))

expr_apply(s, op, acc, t) ==
    IF ~t.ok THEN t
    ELSE parse_expr_rest(s, t.i, IF op = "+" THEN num_add(acc, t.v) ELSE num_sub(acc, t.v))

parse_expr_rest(s, i0, acc) ==
    LET i == skip_space(s, i0)
    IN IF i <= Len(s) /\ s[i] \in {"+", "-"}
       THEN expr_apply(s, s[i], acc, parse_term(s, i + 1))
       ELSE Ok(acc, i)

expr_start(s, t) == IF ~t.ok THEN t ELSE parse_expr_rest(s, t.i, t.v)

parse_expr(s, i) == expr_start(s, parse_term(s, i))

\* The whole text must have been read.
read_all(expression, r) ==
    IF ~r.ok THEN r
    ELSE IF r.i <= Len(expression) THEN SyntaxFail
    ELSE r

\* sp.sympify(expression).evalf(): the value, or the exception raised.
sympify_evalf(expression) == read_all(expression, parse_expr(expression, 1))

(***************************************************************************)
(* CalculatorEngine.evaluate                                               *)
(***************************************************************************)
NoValue == [type |-> "none", k |-> "none", n |-> 0, d |-> 1, t |-> <<>>]

Return(value) == [kind |-> "return", type |-> "", msg |-> <<>>, value |-> value]

Raise(type, msg) == [kind |-> "raise", type |-> type, msg |-> msg, value |-> NoValue]

\* float(evaluated): the real as a Python float.  An uninterpreted real is
\* told from another by the text it was computed from.
to_float(v, text) ==
    [type |-> "float", k |-> v.k, n |-> v.n, d |-> v.d,
     t |-> IF v.k = "opq" THEN text ELSE <<>>]

\* The chain as it would run if the library defined ComplexNumber: a value
\* that is not a real falls through to `return evaluated`.
classify_fallback(evaluated, text) ==
    IF IsReal(evaluated) THEN Return(to_float(evaluated, text))
    ELSE Return([type |-> "sympy", k |-> evaluated.k, n |-> 0, d |-> 1, t |-> text])

\* The isinstance chain on the value of evalf().  evalf() turns an Integer or
\* a Rational into a Float, so a real takes the first branch.  Any other
\* value reaches the test against sp.core.numbers.ComplexNumber, a name the
\* library does not define: the lookup raises AttributeError.
classify(evaluated, text) ==
    IF IsReal(evaluated) THEN Return(to_float(evaluated, text))
    ELSE Raise("AttributeError",
               <<"module 'sympy.core.numbers' has no attribute 'ComplexNumber'">>)

\* The body of the try block.
outcome_of(r, handed) ==
    IF ~r.ok THEN Raise(r.exc.type, <<r.exc.msg>>)
    ELSE classify(r.v, handed)

\* Lines 142-152, on the text handed to sympify.
evaluate_handed(handed) == outcome_of(sympify_evalf(handed), handed)

evaluate_body(expression, mode) ==
    evaluate_handed(handle_special_functions(substitute_constants(expression), mode))

\* A handler that catches the errors of the parser only.
evaluate_except_narrow(body) ==
    IF body.kind = "raise" /\ body.type = "SympifyError"
    THEN Raise("MathError", <<"Error evaluating expression: ">> \o body.msg)
    ELSE body

\* except Exception as e: raise MathError(f"Error evaluating expression: {e}")
evaluate_except(body) ==
    IF body.kind = "raise"
    THEN Raise("MathError", <<"Error evaluating expression: ">> \o body.msg)
    ELSE body

evaluate(expression, mode) == evaluate_except(evaluate_body(expression, mode))

\* One call of evaluate, with the values of its local variable `expression`
\* after line 139 (substituted) and after line 140 (handed), and the
\* exception raised inside the try block (failure).
call_record(expression, mode, substituted, handed, body) ==
    [pc |-> "done",
     expression |-> expression,
     mode |-> mode,
     substituted |-> substituted,
     handed |-> handed,
     failure |-> IF body.kind = "raise" THEN body ELSE Raise("", <<>>),
     outcome |-> evaluate_except(body)]

call_handed(expression, mode, substituted, handed) ==
    call_record(expression, mode, substituted, handed, evaluate_handed(handed))

call_substituted(expression, mode, substituted) ==
    call_handed(expression, mode, substituted,
                handle_special_functions(substituted, mode))

evaluate_call(expression, mode) ==
    call_substituted(expression, mode, substitute_constants(expression))

AngleModes == {"radians", "degrees"}

\* `first` keeps, for each angle mode, the outcome of the earliest call made
\* in that mode (Raise("", <<>>) while there was none); `again` tells that
\* the call repeats one of its mode after a call made in the other mode.
NoCall(expression) ==
    [pc |-> "ready", expression |-> expression, mode |-> "", substituted |-> <<>>,
     handed |-> <<>>, failure |-> Raise("", <<>>), outcome |-> Raise("", <<>>),
     first |-> [m \in AngleModes |-> Raise("", <<>>)], again |-> FALSE]

\* The call `now`, made after the calls `prev` knows of.
remember(prev, now) ==
    [first |-> [m \in AngleModes |->
                  IF m = now.mode /\ prev.first[m] = Raise("", <<>>)
                  THEN now.outcome
                  ELSE prev.first[m]],
     again |-> /\ prev.pc = "done"
               /\ prev.mode # now.mode
               /\ prev.first[now.mode] # Raise("", <<>>)] @@ now

(***************************************************************************)
(* Numbers as text: str(int(x)), str(x) and float(text)                    *)
(***************************************************************************)
RECURSIVE nat_text(_)
nat_text(n) ==
    IF n < 10 THEN <<Digits_seq[n + 1]>>
    ELSE nat_text(n \div 10) \o <<Digits_seq[(n % 10) + 1]>>

\* str(n) of an int
int_text(n) == IF n < 0 THEN <<"-">> \o nat_text(-n) ELSE nat_text(n)

\* The digits s[i .. j-1] padded on the left with zeros to width w.
RECURSIVE zero_pad(_, _)
zero_pad(s, w) == IF Len(s) >= w THEN s ELSE zero_pad(<<"0">> \o s, w)

MaxFraction == 4

\* The least k <= MaxFraction with d dividing 10^k, or -1.
RECURSIVE decimal_places(_, _)
decimal_places(d, k) ==
    IF k > MaxFraction THEN -1
    ELSE IF pow10(k) % d = 0 THEN k ELSE decimal_places(d, k + 1)

\* x == int(x) of a float.  int() truncates; an uninterpreted real is taken
\* not to be a whole number.
is_whole(v) == v.k = "num" /\ v.d = 1

\* int(x) of an exact real: truncation toward zero.
trunc(v) == IF v.n >= 0 THEN v.n \div v.d ELSE -((-v.n) \div v.d)

\* str(x) of a float: the shortest decimal text that reads back as x.  A
\* fraction with a short decimal expansion is written out; any other real is
\* written '~' and a text that denotes it, which float_of reads back.
float_text(v) ==
    IF v.k = "opq"
    THEN IF \A q \in 1..Len(v.t) : v.t[q] \in Digits \cup {"."}
         THEN v.t ELSE <<"~">> \o v.t
    ELSE LET k == decimal_places(v.d, 0)
             scaled == (Abs(v.n) * pow10(IF k < 0 THEN 0 ELSE k)) \div v.d
             whole == scaled \div pow10(IF k < 0 THEN 0 ELSE k)
             frac == scaled % pow10(IF k < 0 THEN 0 ELSE k)
             sign == IF v.n < 0 THEN <<"-">> ELSE <<>>
         IN IF k < 0 THEN <<"~">> \o int_text(v.n) \o <<"/">> \o nat_text(v.d)
            ELSE IF k = 0 THEN sign \o nat_text(whole) \o <<".", "0">>
            ELSE sign \o nat_text(whole) \o <<".">> \o zero_pad(nat_text(frac), k)

\* The text the handlers show for a number: str(int(x)) when x == int(x),
\* else str(x).
number_text(v) == IF is_whole(v) THEN int_text(trunc(v)) ELSE float_text(v)

\* float(text): the value, or ValueError.  The accepted texts are the ones
\* the handlers write: an optional sign and a decimal literal, or '~' text.
float_value(r, body) ==
    IF r.ok /\ IsReal(r.v) THEN Ok(to_float(r.v, body), 0)
    ELSE Fail("ValueError", "could not convert string to float")

float_literal(lit, body, start) ==
    IF lit.ok /\ lit.i = Len(body) + 1
    THEN Ok(to_float(IF start = 2 /\ body[1] = "-" THEN num_neg(lit.v) ELSE lit.v,
                     SubSeq(body, start, Len(body))), 0)
    ELSE Fail("ValueError", "could not convert string to float")

float_of(text) ==
    LET body == IF Len(text) > 0 /\ text[1] = "~" THEN Tail(text) ELSE text
        start == IF Len(body) > 0 /\ body[1] \in {"-", "+"} THEN 2 ELSE 1
        plain == /\ Len(body) >= start
                 /\ \A q \in start..Len(body) : body[q] \in Digits \cup {"."}
    IN IF Len(text) > 0 /\ text[1] = "~" THEN float_value(sympify_evalf(body), body)
       ELSE IF plain THEN float_literal(parse_number(body, start), body, start)
       ELSE Fail("ValueError", "could not convert string to float")

(***************************************************************************)
(* MemoryManager: the register, the items and calculator_memory.json       *)
(***************************************************************************)
\* The int 0 the register starts from and memory_clear resets it to.
Zero == [type |-> "int", k |-> "num", n |-> 0, d |-> 1, t |-> <<>>]

\* a + b and a - b of two numbers, as a float.
value_add(a, b) ==
    to_float(num_add(a, b), <<"(">> \o float_text(a) \o <<")", "+", "(">> \o float_text(b) \o <<")">>)

value_sub(a, b) ==
    to_float(num_sub(a, b), <<"(">> \o float_text(a) \o <<")", "-", "(">> \o float_text(b) \o <<")">>)

MemoryItem(value, expression, timestamp) ==
    [value |-> value, expression |-> expression, timestamp |-> timestamp]

\* json.dump of a number: the repr of a float, the digits of an int.
json_number(v) == IF v.type = "int" THEN int_text(v.n) ELSE float_text(v)

\* int(text) of the digits json.dump wrote.
int_of(text) ==
    [type |-> "int", k |-> "num",
     n |-> IF text[1] = "-" THEN -digits_value(text, 2, Len(text) + 1)
           ELSE digits_value(text, 1, Len(text) + 1),
     d |-> 1, t |-> <<>>]

\* json.load of a number: a float when the text has a fraction, else an int.
number_of_json(text) ==
    IF \E q \in 1..Len(text) : text[q] \in {".", "~"}
    THEN float_of(text).v
    ELSE int_of(text)

\* The content of calculator_memory.json.  kind: "missing" (no file),
\* "garbage" (not JSON) or "json"; shape: the JSON value is a "dict" or a
\* "list"; has_register, register: the key 'memory_register'; items_kind:
\* the key 'memory_items' is "absent", a "scalar" or a "list"; items: the
\* elements of that list, each a list of `arity` elements.
\* The numbers are the texts json.dump wrote.
FileOf(kind, shape, has_register, register, items_kind, items) ==
    [kind |-> kind, shape |-> shape, has_register |-> has_register,
     register |-> register, items_kind |-> items_kind, items |-> items]

MissingFile == FileOf("missing", "", FALSE, <<>>, "absent", <<>>)

GarbageFile == FileOf("garbage", "", FALSE, <<>>, "absent", <<>>)

FileItem(item) ==
    [arity |-> 3, value |-> json_number(item.value), expression |-> item.expression,
     timestamp |-> item.timestamp]

\* A dump that writes the items last to first.
memory_data_reversed(register, items) ==
    FileOf("json", "dict", TRUE, json_number(register), "list",
           [q \in 1..Len(items) |-> FileItem(items[Len(items) + 1 - q])])

\* What json.dump(memory_data, f) writes.
memory_data(register, items) ==
    FileOf("json", "dict", TRUE, json_number(register), "list",
           [q \in 1..Len(items) |-> FileItem(items[q])])

\* A save that never replaces the content of the file.
save_memory_unwritten(register, items, file, io) ==
    IF io = "dump_failed" THEN GarbageFile ELSE file

\* save_memory: io is what the file system does with the write.  open(.., 'w')
\* can fail and leave the file as it was; it truncates the file, so a failure
\* of the dump after it leaves a file that is not JSON.  Either failure is
\* logged and swallowed.
save_memory(register, items, file, io) ==
    IF io = "ok" THEN memory_data(register, items)
    ELSE IF io = "open_failed" THEN file
    ELSE GarbageFile

IoOutcomes == {"ok", "open_failed", "dump_failed"}

\* load_memory on a manager that holds the defaults of __init__: the
\* register and the items after it.  The register is assigned (line 117)
\* before the items are built (lines 118-121); an exception between the two is
\* caught by the except of line 122.
load_memory(file) ==
    IF file.kind # "json" \/ file.shape # "dict"
    THEN [memory_register |-> Zero, memory |-> <<>>]
    ELSE LET register == IF file.has_register THEN number_of_json(file.register)
                         ELSE Zero
             unpacks == /\ file.items_kind # "scalar"
                        /\ \A q \in 1..Len(file.items) : file.items[q].arity = 3
         IN [memory_register |-> register,
             memory |-> IF file.items_kind = "list" /\ unpacks
                        THEN [q \in 1..Len(file.items) |->
                                 MemoryItem(number_of_json(file.items[q].value),
                                            file.items[q].expression,
                                            file.items[q].timestamp)]
                        ELSE <<>>]

\* load_memory raised inside its try block.
load_fails(file) ==
    \/ file.kind = "garbage"
    \/ file.kind = "json" /\ file.shape # "dict"
    \/ /\ file.kind = "json" /\ file.shape = "dict"
       /\ \/ file.items_kind = "scalar"
          \/ \E q \in 1..Len(file.items) : file.items[q].arity # 3

(***************************************************************************)
(* AdvancedCalculator: the handlers                                        *)
(***************************************************************************)
MaxLen == 1

MaxItems == 1

MaxHistory == 2

MaxClock == 1

MaxRegister == 2

\* str.strip()
RECURSIVE lstrip(_)
lstrip(s) == IF Len(s) > 0 /\ IsSpace(s[1]) THEN lstrip(Tail(s)) ELSE s

RECURSIVE rstrip(_)
rstrip(s) ==
    IF Len(s) > 0 /\ IsSpace(s[Len(s)]) THEN rstrip(SubSeq(s, 1, Len(s) - 1)) ELSE s

strip(s) == lstrip(rstrip(s))

\* current_text[:cursor_position] + text + current_text[cursor_position:]
insert_at(current_text, cursor_position, text) ==
    SubSeq(current_text, 1, cursor_position) \o text
        \o SubSeq(current_text, cursor_position + 1, Len(current_text))

MemoryMutations == {"memory_store", "memory_add", "memory_subtract", "memory_clear"}

\* The handler that returned last: ok, it reached its assignments; io, what
\* the file system did with its write ("none": it wrote nothing); text, the
\* text a recall inserted; stored, the last handler that changed the memory
\* was a memory_store.
Op(name, ok, io, text) ==
    [name |-> name, ok |-> ok, io |-> io, text |-> text,
     stored |-> IF name = "memory_store" THEN ok \/ last_op.stored
                ELSE IF name \in MemoryMutations THEN ~ok /\ last_op.stored
                ELSE last_op.stored]

\* A live evaluation that shows the error it caught.
live_text_showing(expression, shown, result) ==
    IF expression = <<>> THEN <<>>
    ELSE IF expression[Len(expression)] \in {"+", "-", "*", "/", "^", "(", "%"}
         THEN shown
    ELSE IF result.kind = "raise" THEN <<"E", "r", "r", "o", "r", ":", " ">> \o result.msg
    ELSE number_text(result.value)

\* The text evaluate_as_you_type leaves in result_display, for the text
\* new_text of the display and the text shown of result_display before it.
live_text(expression, shown, result) ==
    IF expression = <<>> THEN <<>>
    ELSE IF expression[Len(expression)] \in {"+", "-", "*", "/", "^", "(", "%"}
         THEN shown
    ELSE IF result.kind = "raise" THEN <<>>
    ELSE number_text(result.value)

evaluate_as_you_type(new_text, shown, mode) ==
    live_text(strip(new_text), shown, evaluate(strip(new_text), mode))

add_to_display(text) ==
    /\ Len(display) + Len(text) <= MaxLen
    /\ display' = insert_at(display, cursor, text)
    /\ cursor' = cursor + Len(text)
    /\ result_display' = evaluate_as_you_type(display', result_display, angle_mode)
    /\ last_op' = Op("add_to_display", TRUE, "none", <<>>)
    /\ UNCHANGED <<angle_mode, memory_register, memory, history, memory_file,
                   history_file, clock, call, current_mode,
                   number_system, word_size, eval_call>>

ErrorText(msg) == <<"E", "r", "r", "o", "r", ":", " ">> \o msg

\* re.sub(r'[^0-9A-Fa-f+\-*/&|^~%<>()\s]', '', expression)
ProgrammerChars ==
    Digits \cup {"A", "B", "C", "D", "E", "F", "a", "b", "c", "d", "e", "f"}
           \cup {"+", "-", "*", "/", "&", "|", "^", "~", "%", "<", ">", "(", ")"}
           \cup {" ", NL}

\* A filter that hands the characters on in the opposite order.
RECURSIVE safe_expr_reversed(_)
safe_expr_reversed(expression) ==
    IF expression = <<>> THEN <<>>
    ELSE safe_expr_reversed(Tail(expression))
             \o (IF Head(expression) \in ProgrammerChars THEN <<Head(expression)>> ELSE <<>>)

safe_expr(expression) == SelectSeq(expression, LAMBDA c : c \in ProgrammerChars)

\* The texts eval is modelled on: decimal literals and the sign '+'.
EvalAlphabet == Digits \cup {"+"}

\* The sum of the literals of s[i ..], all of them well formed.
RECURSIVE sum_from(_, _)
sum_from(s, i) ==
    IF i > Len(s) THEN 0
    ELSE IF s[i] = "+" THEN sum_from(s, i + 1)
    ELSE digits_value(s, i, run_end(s, i, Digits)) + sum_from(s, run_end(s, i, Digits))

\* A literal of several digits that starts with 0 and is not all zeros.
leading_zero(s) ==
    \E i \in 1..Len(s) :
        /\ s[i] = "0"
        /\ (i = 1 \/ s[i - 1] = "+")
        /\ run_end(s, i, {"0"}) < run_end(s, i, Digits)

\* eval(safe_expr) on a text of EvalAlphabet: an int, or SyntaxError when the
\* text is empty, ends with the sign or holds a literal with a leading zero.
python_eval(s) ==
    IF s = <<>> \/ s[Len(s)] = "+"
    THEN Raise("SyntaxError", <<"invalid syntax (<string>, line 1)">>)
    ELSE IF leading_zero(s)
    THEN Raise("SyntaxError",
               <<"leading zeros in decimal integer literals are not permitted">>)
    ELSE Return([type |-> "int", k |-> "num", n |-> sum_from(s, 1), d |-> 1, t |-> <<>>])

NumberSystems == {"DEC", "HEX", "OCT", "BIN"}

HexDigits == Digits_seq \o <<"a", "b", "c", "d", "e", "f">>

\* The digits of n >= 0 in base b.
RECURSIVE base_digits(_, _)
base_digits(n, b) ==
    IF n < b THEN <<HexDigits[n + 1]>>
    ELSE base_digits(n \div b, b) \o <<HexDigits[(n % b) + 1]>>

\* hex(n), oct(n), bin(n)
prefixed(n, b, prefix) ==
    (IF n < 0 THEN <<"-">> ELSE <<>>) \o prefix \o base_digits(Abs(n), b)

\* Lines 772-780: the text of int(result) in the number system selected.
programmer_text(n, system) ==
    IF system = "HEX" THEN prefixed(n, 16, <<"0", "x">>)
    ELSE IF system = "OCT" THEN prefixed(n, 8, <<"0", "o">>)
    ELSE IF system = "BIN" THEN prefixed(n, 2, <<"0", "b">>)
    ELSE int_text(n)

\* The radio buttons of the word size and the widths they stand for.
WordSizes == {"QWORD", "DWORD", "WORD", "BYTE"}

Bits(size) ==
    IF size = "QWORD" THEN 64 ELSE IF size = "DWORD" THEN 32
    ELSE IF size = "WORD" THEN 16 ELSE 8

\* n reduced to the width of the word size selected.
masked(n, size) == IF Bits(size) > 16 THEN n ELSE n % (2 ^ Bits(size))

\* A calculate whose entry goes in front of the history.
calculate_shows_in_front(result, text) ==
    IF result.kind = "return"
    THEN /\ result_display' = text
         /\ history' = <<display \o <<" ", "=", " ">> \o text>> \o history
         /\ last_op' = Op("calculate", TRUE, "none", <<>>)
    ELSE /\ result_display' = ErrorText(result.msg)
         /\ history' = history
         /\ last_op' = Op("calculate", FALSE, "none", <<>>)

\* A calculate that records the failure in the history too.
calculate_shows_recording(result, text) ==
    IF result.kind = "return"
    THEN /\ result_display' = text
         /\ history' = Append(history, display \o <<" ", "=", " ">> \o text)
         /\ last_op' = Op("calculate", TRUE, "none", <<>>)
    ELSE /\ result_display' = ErrorText(result.msg)
         /\ history' = Append(history, display \o <<" ", "=", " ">> \o result_display')
         /\ last_op' = Op("calculate", FALSE, "none", <<>>)

\* Lines 789-802: the result text goes to the result display and, with the
\* expression, to the history; an exception goes to the result display.
calculate_shows(result, text) ==
    IF result.kind = "return"
    THEN /\ result_display' = text
         /\ history' = Append(history, display \o <<" ", "=", " ">> \o text)
         /\ last_op' = Op("calculate", TRUE, "none", <<>>)
    ELSE /\ result_display' = ErrorText(result.msg)
         /\ history' = history
         /\ last_op' = Op("calculate", FALSE, "none", <<>>)

\* A programmer branch that enforces the word size.
calculate_programmer_masked(result, system) ==
    calculate_shows(result, programmer_text(masked(result.value.n, word_size), system))

\* Lines 770-780.
calculate_programmer(result, system) ==
    calculate_shows(result, programmer_text(result.value.n, system))

\* Lines 782-788.  evaluate returns a float or raises, so the test
\* isinstance(result, complex) of line 783 is false.
calculate_engine(result) ==
    calculate_shows(result, number_text(result.value))

\* Line 772 reads the radio buttons self.number_system; no line reads
\* self.word_size.
calculate ==
    /\ display # <<>>
    /\ Len(history) < MaxHistory
    /\ IF current_mode = "PROGRAMMER"
       THEN /\ \A q \in 1..Len(safe_expr(display)) : safe_expr(display)[q] \in EvalAlphabet
            /\ call' = call
            /\ eval_call' = [made |-> TRUE, text |-> safe_expr(display)]
            /\ calculate_programmer(python_eval(safe_expr(display)), number_system)
       ELSE /\ call' = remember(NoCall(display), evaluate_call(display, angle_mode))
            /\ eval_call' = eval_call
            /\ calculate_engine(call'.outcome)
    /\ UNCHANGED <<display, cursor, angle_mode, memory_register, memory, memory_file,
                   history_file, clock, current_mode, number_system, word_size>>

(***************************************************************************)
(* The number system and the word size of the programmer mode              *)
(***************************************************************************)
\* The argument each radio button hands to change_number_system, and the
\* value the button gives self.number_system.
SystemNames == {"hexadecimal", "decimal", "octal", "binary"}

RadioValue(system) ==
    IF system = "hexadecimal" THEN "HEX" ELSE IF system = "octal" THEN "OCT"
    ELSE IF system = "binary" THEN "BIN" ELSE "DEC"

\* The value of the digits s[i ..] in base b.
RECURSIVE base_value(_, _, _)
base_value(s, i, b) ==
    IF i < 1 THEN 0
    ELSE b * base_value(s, i - 1, b)
             + (CHOOSE n \in 0..15 : HexDigits[n + 1] = s[i])

\* int(text, b): an optional sign, an optional prefix of the base and one or
\* more digits of the base; any other text raises ValueError.
int_digits(digits, b, negative) ==
    IF digits # <<>> /\ \A q \in 1..Len(digits) :
                            \E n \in 0..(b - 1) : HexDigits[n + 1] = digits[q]
    THEN [ok |-> TRUE,
          n |-> IF negative THEN -base_value(digits, Len(digits), b)
                ELSE base_value(digits, Len(digits), b)]
    ELSE [ok |-> FALSE, n |-> 0]

int_unsigned(body, b, prefix, negative) ==
    int_digits(IF StartsWithAt(body, prefix, 1) THEN SubSeq(body, 3, Len(body)) ELSE body,
               b, negative)

int_base(text, b, prefix) ==
    IF text # <<>> /\ text[1] = "-"
    THEN int_unsigned(Tail(text), b, prefix, TRUE)
    ELSE int_unsigned(text, b, prefix, FALSE)

\* int(float(result_text)): the float truncated; ValueError when the text
\* is no float.
int_float(r) ==
    IF r.ok /\ r.v.k = "num" THEN [ok |-> TRUE, n |-> trunc(r.v)]
    ELSE [ok |-> FALSE, n |-> 0]

\* Lines 1007-1014: the value read from the text of the result display.
shown_value(result_text) ==
    IF \E q \in 1..Len(result_text) : result_text[q] = "x"
    THEN int_base(result_text, 16, <<"0", "x">>)
    ELSE IF \E q \in 1..Len(result_text) : result_text[q] = "o"
    THEN int_base(result_text, 8, <<"0", "o">>)
    ELSE IF \E q \in 1..Len(result_text) : result_text[q] = "b"
    THEN int_base(result_text, 2, <<"0", "b">>)
    ELSE int_float(float_of(result_text))

\* Lines 1017-1024: hex(value), oct(value), bin(value) or str(value).
system_text(value, system) == programmer_text(value, RadioValue(system))

\* The text of the result display after the try block: the text as it was
\* when it is empty or '0' or when the conversion raised.
converted_value(result_text, system, value) ==
    IF value.ok THEN system_text(value.n, system) ELSE result_text

converted(result_text, system) ==
    IF result_text = <<>> \/ result_text = <<"0">> THEN result_text
    ELSE converted_value(result_text, system, shown_value(result_text))

\* The radio buttons are in the frame of the programmer mode, which
\* switch_mode shows in that mode only.  A result written as '~' and a text
\* stands for a real whose digits are not computed; its button is left out.
change_number_system(system) ==
    /\ current_mode = "PROGRAMMER"
    /\ ~(result_display # <<>> /\ result_display[1] = "~")
    /\ number_system' = RadioValue(system)
    /\ result_display' = converted(result_display, system)
    /\ last_op' = Op("change_number_system", TRUE, "none", <<>>)
    /\ UNCHANGED <<display, cursor, angle_mode, memory_register, memory, history,
                   memory_file, history_file, clock, call, current_mode, word_size,
                   eval_call>>

\* The radio button sets self.word_size; the handler sets the status line.
change_word_size(size) ==
    /\ current_mode = "PROGRAMMER"
    /\ word_size' = size
    /\ last_op' = Op("change_word_size", TRUE, "none", <<>>)
    /\ UNCHANGED <<display, cursor, result_display, angle_mode, memory_register, memory,
                   history, memory_file, history_file, clock, call, current_mode,
                   number_system, eval_call>>

\* The longest text the pastes and the edits below build in the display.
MaxText == 4

\* paste_to_display with the text clipboard_content on the clipboard.
paste_to_display(clipboard_content) ==
    /\ Len(display) + Len(clipboard_content) <= MaxText
    /\ display' = insert_at(display, cursor, clipboard_content)
    /\ cursor' = cursor + Len(clipboard_content)
    /\ result_display' = evaluate_as_you_type(display', result_display, angle_mode)
    /\ last_op' = Op("paste_to_display", TRUE, "none", <<>>)
    /\ UNCHANGED <<angle_mode, memory_register, memory, history, memory_file,
                   history_file, clock, call, current_mode,
                   number_system, word_size, eval_call>>

(***************************************************************************)
(* The edits of the display: insert_function, backspace, negate            *)
(***************************************************************************)
\* The selection of the entry: the characters after position sel[1] up to
\* position sel[2], or none (selection_get raises TclError).
NoSelection == <<0, 0>>

Selections(text) ==
    {NoSelection} \cup { sel \in (0..Len(text)) \X (0..Len(text)) : sel[1] < sel[2] }

selected(text, sel) == SubSeq(text, sel[1] + 1, sel[2])

\* current_text[:start] + text + current_text[end:]
replaced(current_text, sel, text) ==
    SubSeq(current_text, 1, sel[1]) \o text \o SubSeq(current_text, sel[2] + 1, Len(current_text))

\* delete(0, END), insert(0, new_text), icursor(new_cursor) and the live
\* evaluation that ends the handler.
display_set(name, new_text, new_cursor) ==
    /\ Len(new_text) <= MaxText
    /\ display' = new_text
    /\ cursor' = new_cursor
    /\ result_display' = evaluate_as_you_type(new_text, result_display, angle_mode)
    /\ last_op' = Op(name, TRUE, "none", <<>>)
    /\ UNCHANGED <<angle_mode, memory_register, memory, history, memory_file,
                   history_file, clock, call, current_mode,
                   number_system, word_size, eval_call>>

\* func_name + "()" at the cursor, the cursor after the '('; with a
\* selection, func_name + "(selection)" in place of the selection and the
\* cursor before it.
insert_function(func_name, sel) ==
    IF sel = NoSelection
    THEN display_set("insert_function",
                     insert_at(display, cursor, func_name \o <<"(", ")">>),
                     cursor + Len(func_name) + 1)
    ELSE display_set("insert_function",
                     replaced(display, sel,
                              func_name \o <<"(">> \o selected(display, sel) \o <<")">>),
                     sel[1])

\* The character before the cursor is deleted; nothing is done when the
\* cursor is at the start.
backspace ==
    IF cursor > 0
    THEN display_set("backspace",
                     SubSeq(display, 1, cursor - 1) \o SubSeq(display, cursor + 1, Len(display)),
                     cursor - 1)
    ELSE /\ last_op' = Op("backspace", TRUE, "none", <<>>)
         /\ UNCHANGED <<display, cursor, result_display, angle_mode, memory_register,
                        memory, history, memory_file, history_file, clock, call,
                        current_mode, number_system, word_size, eval_call>>

\* Lines 836-844: the selection that float() reads is replaced by the text
\* of its negation, any other selection by -(selection).
negated_text(selection, value) ==
    IF value.ok THEN number_text(num_neg(value.v))
    ELSE <<"-", "(">> \o selection \o <<")">>

negate_selection(sel, text) ==
    display_set("negate", replaced(display, sel, text), sel[1] + Len(text))

\* Lines 848-852: the entry moves its cursor with the characters after the
\* place of an insert or a delete.
negate(sel) ==
    IF sel # NoSelection
    THEN negate_selection(sel, negated_text(selected(display, sel),
                                            float_of(strip(selected(display, sel)))))
    ELSE IF display # <<>> /\ display[1] = "-"
    THEN display_set("negate", Tail(display), IF cursor >= 1 THEN cursor - 1 ELSE 0)
    ELSE display_set("negate", <<"-">> \o display, cursor + 1)

clear_display ==
    /\ display' = <<>>
    /\ cursor' = 0
    /\ result_display' = <<>>
    /\ last_op' = Op("clear_display", TRUE, "none", <<>>)
    /\ UNCHANGED <<angle_mode, memory_register, memory, history, memory_file,
                   history_file, clock, call, current_mode,
                   number_system, word_size, eval_call>>

clear_entry ==
    /\ display' = <<>>
    /\ cursor' = 0
    /\ last_op' = Op("clear_entry", TRUE, "none", <<>>)
    /\ UNCHANGED <<result_display, angle_mode, memory_register, memory, history,
                   memory_file, history_file, clock, call, current_mode,
                   number_system, word_size, eval_call>>

clear_all ==
    /\ display' = <<>>
    /\ cursor' = 0
    /\ result_display' = <<>>
    /\ last_op' = Op("clear_all", TRUE, "none", <<>>)
    /\ UNCHANGED <<angle_mode, memory_register, memory, history, memory_file,
                   history_file, clock, call, current_mode,
                   number_system, word_size, eval_call>>

CalculationMode == {"STANDARD", "SCIENTIFIC", "PROGRAMMER", "GRAPHING", "STATISTICS"}

switch_mode(mode) ==
    /\ current_mode' = mode
    /\ last_op' = Op("switch_mode", TRUE, "none", <<>>)
    /\ UNCHANGED <<display, cursor, result_display, angle_mode, memory_register,
                   memory, history, memory_file, history_file, clock, call,
                   number_system, word_size, eval_call>>

\* A switch of the angle mode that also empties the result display.
toggle_angle_mode_clearing ==
    /\ angle_mode' = IF angle_mode = "radians" THEN "degrees" ELSE "radians"
    /\ result_display' = <<>>
    /\ last_op' = Op("toggle_angle_mode", TRUE, "none", <<>>)
    /\ UNCHANGED <<display, cursor, memory_register, memory, history,
                   memory_file, history_file, clock, call, current_mode,
                   number_system, word_size, eval_call>>

toggle_angle_mode ==
    /\ angle_mode' = IF angle_mode = "radians" THEN "degrees" ELSE "radians"
    /\ last_op' = Op("toggle_angle_mode", TRUE, "none", <<>>)
    /\ UNCHANGED <<display, cursor, result_display, memory_register, memory, history,
                   memory_file, history_file, clock, call, current_mode,
                   number_system, word_size, eval_call>>

\* memory_store.  add_to_memory appends the item and saves (with the register
\* as it is then); the register is assigned after the save.
\* A store in which the failure of the write leaves save_memory: it leaves
\* add_to_memory too and reaches the except clause of line 866.
memory_store_unswallowed(io) ==
    LET value == float_of(result_display)
    IN /\ Len(memory) < MaxItems
       /\ IF result_display # <<>> /\ value.ok
          THEN /\ memory' = Append(memory, MemoryItem(value.v, display, clock))
               /\ memory_file' = save_memory(memory_register, memory', memory_file, io)
               /\ memory_register' = IF io = "ok" THEN value.v ELSE memory_register
               /\ last_op' = Op("memory_store", TRUE, io, <<>>)
          ELSE /\ io = "ok"
               /\ UNCHANGED <<memory, memory_file, memory_register>>
               /\ last_op' = Op("memory_store", FALSE, "none", <<>>)
       /\ UNCHANGED <<display, cursor, result_display, angle_mode, history,
                      history_file, clock, call, current_mode,
                      number_system, word_size, eval_call>>

\* A store that puts the new item in front of the list.
memory_store_in_front(io, limit) ==
    LET value == float_of(result_display)
    IN /\ Len(memory) < limit
       /\ IF result_display # <<>> /\ value.ok
          THEN /\ memory' = <<MemoryItem(value.v, display, clock)>> \o memory
               /\ memory_file' = save_memory(memory_register, memory', memory_file, io)
               /\ memory_register' = value.v
               /\ last_op' = Op("memory_store", TRUE, io, <<>>)
          ELSE /\ io = "ok"
               /\ UNCHANGED <<memory, memory_file, memory_register>>
               /\ last_op' = Op("memory_store", FALSE, "none", <<>>)
       /\ UNCHANGED <<display, cursor, result_display, angle_mode, history,
                      history_file, clock, call, current_mode,
                      number_system, word_size, eval_call>>

\* limit bounds the length of the list.
memory_store_within(io, limit) ==
    LET value == float_of(result_display)
    IN /\ Len(memory) < limit
       /\ IF result_display # <<>> /\ value.ok
          THEN /\ memory' = Append(memory, MemoryItem(value.v, display, clock))
               /\ memory_file' = save_memory(memory_register, memory', memory_file, io)
               /\ memory_register' = value.v
               /\ last_op' = Op("memory_store", TRUE, io, <<>>)
          ELSE /\ io = "ok"
               /\ UNCHANGED <<memory, memory_file, memory_register>>
               /\ last_op' = Op("memory_store", FALSE, "none", <<>>)
       /\ UNCHANGED <<display, cursor, result_display, angle_mode, history,
                      history_file, clock, call, current_mode,
                      number_system, word_size, eval_call>>

memory_store(io) == memory_store_within(io, MaxItems)

memory_recall ==
    LET insert_text == number_text(memory_register)
    IN /\ Len(display) + Len(insert_text) <= MaxLen
       /\ display' = insert_at(display, cursor, insert_text)
       /\ cursor' = cursor + Len(insert_text)
       /\ result_display' = evaluate_as_you_type(display', result_display, angle_mode)
       /\ last_op' = Op("memory_recall", TRUE, "none", insert_text)
       /\ UNCHANGED <<angle_mode, memory_register, memory, history, memory_file,
                      history_file, clock, call, current_mode,
                      number_system, word_size, eval_call>>

\* memory_add and memory_subtract change the register and do not save.
memory_add ==
    LET value == float_of(result_display)
    IN /\ IF result_display # <<>> /\ value.ok
          THEN /\ memory_register' = value_add(memory_register, value.v)
               /\ memory_register'.k = "num"
               /\ Abs(memory_register'.n) <= MaxRegister * memory_register'.d
               /\ last_op' = Op("memory_add", TRUE, "none", <<>>)
          ELSE /\ UNCHANGED memory_register
               /\ last_op' = Op("memory_add", FALSE, "none", <<>>)
       /\ UNCHANGED <<display, cursor, result_display, angle_mode, memory, history,
                      memory_file, history_file, clock, call, current_mode,
                      number_system, word_size, eval_call>>

memory_subtract ==
    LET value == float_of(result_display)
    IN /\ IF result_display # <<>> /\ value.ok
          THEN /\ memory_register' = value_sub(memory_register, value.v)
               /\ memory_register'.k = "num"
               /\ Abs(memory_register'.n) <= MaxRegister * memory_register'.d
               /\ last_op' = Op("memory_subtract", TRUE, "none", <<>>)
          ELSE /\ UNCHANGED memory_register
               /\ last_op' = Op("memory_subtract", FALSE, "none", <<>>)
       /\ UNCHANGED <<display, cursor, result_display, angle_mode, memory, history,
                      memory_file, history_file, clock, call, current_mode,
                      number_system, word_size, eval_call>>

memory_clear(io) ==
    /\ memory_register' = Zero
    /\ memory' = <<>>
    /\ memory_file' = save_memory(memory_register', memory', memory_file, io)
    /\ last_op' = Op("memory_clear", TRUE, io, <<>>)
    /\ UNCHANGED <<display, cursor, result_display, angle_mode, history, history_file,
                   clock, call, current_mode,
                   number_system, word_size, eval_call>>

\* A second passes on the clock that add_to_memory reads.
tick ==
    /\ clock < MaxClock
    /\ clock' = clock + 1
    /\ UNCHANGED <<display, cursor, result_display, angle_mode, memory_register, memory,
                   history, memory_file, history_file, last_op, call, current_mode,
                   number_system, word_size, eval_call>>

(***************************************************************************)
(* The history log and the file it is exported to and imported from        *)
(***************************************************************************)
\* sep.join(entries)
RECURSIVE join(_, _)
join(sep, entries) ==
    IF entries = <<>> THEN <<>>
    ELSE IF Len(entries) = 1 THEN entries[1]
    ELSE entries[1] \o sep \o join(sep, Tail(entries))

\* content.split(sep), from index i on, cur being the piece read so far: the
\* occurrences of sep are taken from the left and do not overlap.
RECURSIVE split_from(_, _, _, _)
split_from(content, sep, i, cur) ==
    IF i > Len(content) THEN <<cur>>
    ELSE IF StartsWithAt(content, sep, i)
         THEN <<cur>> \o split_from(content, sep, i + Len(sep), <<>>)
    ELSE split_from(content, sep, i + 1, Append(cur, content[i]))

split(content, sep) == split_from(content, sep, 1, <<>>)

BlankLine == <<NL, NL>>

not_blank(entry) == strip(entry) # <<>>

\* [entry for entry in content.split('\n\n') if entry.strip()]
entries_of(content) == SelectSeq(split(content, BlankLine), not_blank)

\* save_history.  chosen: the dialog returned a path; io: what the file
\* system does with the write.  Without history, and without a path, nothing
\* is written; a failure of the write is reported and swallowed.
save_history(chosen, io) ==
    /\ IF history # <<>> /\ chosen
       THEN /\ history_file' = IF io = "ok"
                               THEN [exists |-> TRUE, text |-> join(BlankLine, history)]
                               ELSE history_file
            /\ last_op' = Op("save_history", io = "ok", io, <<>>)
       ELSE /\ io = "ok"
            /\ UNCHANGED history_file
            /\ last_op' = Op("save_history", FALSE, "none", <<>>)
    /\ UNCHANGED <<display, cursor, result_display, angle_mode, memory_register, memory,
                   history, memory_file, clock, call, current_mode,
                   number_system, word_size, eval_call>>

\* load_history of a file that holds content.
load_history(content) ==
    /\ history' = entries_of(content)
    /\ last_op' = Op("load_history", TRUE, "none", <<>>)
    /\ UNCHANGED <<display, cursor, result_display, angle_mode, memory_register, memory,
                   memory_file, history_file, clock, call, current_mode,
                   number_system, word_size, eval_call>>

clear_history ==
    /\ history' = <<>>
    /\ last_op' = Op("clear_history", TRUE, "none", <<>>)
    /\ UNCHANGED <<display, cursor, result_display, angle_mode, memory_register, memory,
                   memory_file, history_file, clock, call, current_mode,
                   number_system, word_size, eval_call>>

(***************************************************************************)
(* The calculator after construction, and its memory and display handlers  *)
(***************************************************************************)
One == to_float(Rat(1, 1), <<>>)

GoodItem == [arity |-> 3, value |-> json_number(One), expression |-> <<"1">>, timestamp |-> 0]

ShortItem == [arity |-> 2, value |-> json_number(One), expression |-> <<"1">>, timestamp |-> 0]

\* The files calculator_memory.json the program may find when it starts.
BootFiles ==
    {MissingFile, GarbageFile, FileOf("json", "list", FALSE, <<>>, "absent", <<>>)}
    \cup { FileOf("json", "dict", hr, IF hr THEN json_number(One) ELSE <<>>, ik, items) :
             hr \in BOOLEAN,
             ik \in {"list"},
             items \in {<<>>, <<GoodItem>>, <<ShortItem>>, <<GoodItem, ShortItem>>} }
    \cup { FileOf("json", "dict", hr, IF hr THEN json_number(One) ELSE <<>>, ik, <<>>) :
             hr \in BOOLEAN, ik \in {"absent", "scalar"} }

NoHistoryFile == [exists |-> FALSE, text |-> <<>>]

\* No call of eval was made yet.
NoEval == [made |-> FALSE, text |-> <<>>]

InitOp ==
    [name |-> "init", ok |-> TRUE, io |-> "none", text |-> <<>>, stored |-> FALSE]

\* AdvancedCalculator.__init__: the engine, the manager (which loads the
\* memory file) and the empty widgets.
Init ==
    /\ display = <<>>
    /\ cursor = 0
    /\ result_display = <<>>
    /\ angle_mode = "radians"
    /\ history = <<>>
    /\ history_file = NoHistoryFile
    /\ clock = 0
    /\ call = NoCall(<<>>)
    /\ memory_file \in BootFiles
    /\ memory_register = load_memory(memory_file).memory_register
    /\ memory = load_memory(memory_file).memory
    /\ last_op = InitOp
    /\ current_mode = "STANDARD"
    /\ number_system = "DEC"
    /\ word_size = "QWORD"
    /\ eval_call = NoEval

Buttons == {<<"1">>}

Next ==
    \/ \E text \in Buttons : add_to_display(text)
    \/ clear_entry
    \/ clear_all
    \/ \E io \in IoOutcomes : memory_store(io)
    \/ memory_recall
    \/ memory_add
    \/ memory_subtract
    \/ \E io \in IoOutcomes : memory_clear(io)
    \/ tick

Spec == Init /\ [][Next]_vars

(***************************************************************************)
(* The calculator with its history handlers                                *)
(***************************************************************************)
MaxBlob == 3

\* The texts of at most n characters a file picked in the dialog may hold.
RECURSIVE Blobs(_)
Blobs(n) ==
    IF n = 0 THEN {<<>>}
    ELSE LET shorter == Blobs(n - 1)
         IN shorter \cup { b \o <<c>> : b \in shorter, c \in {"a", NL} }

\* The files load_history can read: a text file of the user, or the file
\* save_history wrote.
Readable ==
    Blobs(MaxBlob) \cup (IF history_file.exists THEN {history_file.text} ELSE {})

InitHistory ==
    /\ display = <<>>
    /\ cursor = 0
    /\ result_display = <<>>
    /\ angle_mode = "radians"
    /\ history = <<>>
    /\ history_file = NoHistoryFile
    /\ clock = 0
    /\ call = NoCall(<<>>)
    /\ memory_file = MissingFile
    /\ memory_register = Zero
    /\ memory = <<>>
    /\ last_op = InitOp
    /\ current_mode = "STANDARD"
    /\ number_system = "DEC"
    /\ word_size = "QWORD"
    /\ eval_call = NoEval

NextHistory ==
    \/ \E text \in Buttons : add_to_display(text)
    \/ calculate
    \/ clear_display
    \/ \E chosen \in BOOLEAN, io \in {"ok", "open_failed"} : save_history(chosen, io)
    \/ \E content \in Readable : load_history(content)
    \/ clear_history

SpecHistory == InitHistory /\ [][NextHistory]_vars

(***************************************************************************)
(* The calculator with its modes                                           *)
(***************************************************************************)
\* Keys of the keypads and of the keyboard: a digit, an operator, a letter.
Keys == Buttons \cup {<<"+">>, <<"x">>}

\* The modes of the View menu that are switched to.
Modes == CalculationMode \ {"GRAPHING", "STATISTICS"}

\* The memory file of an earlier session: the register and one item.
SessionFile == FileOf("json", "dict", TRUE, json_number(One), "list", <<GoodItem>>)

InitModes ==
    /\ display = <<>>
    /\ cursor = 0
    /\ result_display = <<>>
    /\ angle_mode = "radians"
    /\ history = <<>>
    /\ history_file = NoHistoryFile
    /\ clock = 0
    /\ call = NoCall(<<>>)
    /\ memory_file = SessionFile
    /\ memory_register = load_memory(memory_file).memory_register
    /\ memory = load_memory(memory_file).memory
    /\ last_op = InitOp
    /\ current_mode = "STANDARD"
    /\ number_system = "DEC"
    /\ word_size = "QWORD"
    /\ eval_call = NoEval

NextModes ==
    \/ \E text \in Keys : add_to_display(text)
    \/ calculate
    \/ clear_display
    \/ clear_history
    \/ toggle_angle_mode
    \/ \E mode \in Modes : switch_mode(mode)

SpecModes == InitModes /\ [][NextModes]_vars

(***************************************************************************)
(* The calculator started on the memory of an earlier session              *)
(***************************************************************************)
NextMemory ==
    \/ \E text \in Buttons : add_to_display(text)
    \/ \E io \in IoOutcomes : memory_store_within(io, MaxItems + 1)
    \/ memory_recall
    \/ memory_add
    \/ memory_subtract
    \/ \E io \in IoOutcomes : memory_clear(io)
    \/ tick

SpecMemory == InitModes /\ [][NextMemory]_vars

(***************************************************************************)
(* CalculatorEngine.solve_equation, differentiate and integrate            *)
(***************************************************************************)
\* The position of the first c in s at or after i, or 0.
RECURSIVE index_of(_, _, _)
index_of(s, c, i) ==
    IF i > Len(s) THEN 0
    ELSE IF s[i] = c THEN i
    ELSE index_of(s, c, i + 1)

\* equation.split('=', 1) of a text that holds '='
split_once(equation) ==
    <<SubSeq(equation, 1, index_of(equation, "=", 1) - 1),
      SubSeq(equation, index_of(equation, "=", 1) + 1, Len(equation))>>

\* What the library does with an expression it has parsed: sp.Eq and
\* sp.solve give a list of roots, each a real number or a symbolic value;
\* sp.diff and sp.integrate give an expression; any of them may raise.
Roots == {<<>>, <<"real">>, <<"symbolic">>, <<"real", "symbolic">>}

LibraryOutcomes ==
    { [raises |-> "", roots |-> roots] : roots \in Roots }
    \cup { [raises |-> e, roots |-> <<>>] : e \in {"NotImplementedError", "ValueError"} }

\* Lines 175-179: float(sol), or sol itself when float raises.
root_result(sol) == IF sol = "real" THEN "float" ELSE "sympy"

\* Lines 169 and 172-180, the sides parsed.
solved(library) ==
    IF library.raises # "" THEN Raise(library.raises, <<"raised by the library">>)
    ELSE Return([type |-> "list",
                 items |-> [q \in 1..Len(library.roots) |->
                              root_result(library.roots[q])]])

\* Lines 187-188 and 196-202, the expression parsed.
rendered(library) ==
    IF library.raises # "" THEN Raise(library.raises, <<"raised by the library">>)
    ELSE Return([type |-> "str", items |-> <<>>])

right_side(r, library) ==
    IF ~r.ok THEN Raise(r.exc.type, <<r.exc.msg>>) ELSE solved(library)

left_side(l, right, library) ==
    IF ~l.ok THEN Raise(l.exc.type, <<l.exc.msg>>)
    ELSE right_side(sympify_evalf(strip(right)), library)

\* The try block of solve_equation.  sp.sympify fails on the texts on which
\* sympify_evalf does.
solve_body(equation, library) ==
    IF index_of(equation, "=", 1) > 0
    THEN left_side(sympify_evalf(strip(split_once(equation)[1])),
                   split_once(equation)[2], library)
    ELSE right_side(sympify_evalf(equation), library)

parsed(r, library) ==
    IF ~r.ok THEN Raise(r.exc.type, <<r.exc.msg>>) ELSE rendered(library)

\* The try blocks of differentiate and of integrate.
calculus_body(expression, library) == parsed(sympify_evalf(expression), library)

Operations == {"solve_equation", "differentiate", "integrate"}

ErrorPrefix(op) ==
    IF op = "solve_equation" THEN <<"Error solving equation: ">>
    ELSE IF op = "differentiate" THEN <<"Error differentiating expression: ">>
    ELSE <<"Error integrating expression: ">>

\* Handlers that catch the errors of the parser only.
wrapped_narrow(op, body) ==
    IF body.kind = "raise" /\ body.type = "SympifyError"
    THEN Raise("MathError", ErrorPrefix(op) \o body.msg)
    ELSE body

\* except Exception as e: raise MathError(f"Error ...: {e}")
wrapped(op, body) ==
    IF body.kind = "raise"
    THEN Raise("MathError", ErrorPrefix(op) \o body.msg)
    ELSE body

\* One call of an operation, with the exception raised in its try block.
operation_record(op, text, body) ==
    [pc |-> "done", op |-> op, expression |-> text,
     failure |-> IF body.kind = "raise" THEN body ELSE Raise("", <<>>),
     outcome |-> wrapped(op, body)]

NoOperation(op, text) ==
    [pc |-> "ready", op |-> op, expression |-> text,
     failure |-> Raise("", <<>>), outcome |-> Raise("", <<>>)]

\* The sides of the equations, and the equations: a side, two sides, or
\* three sides with two signs.
Sides == {<<>>, <<"x">>, <<"1">>, <<"x", "+">>, <<" ", "x", " ">>}

Equations ==
    Sides \cup { l \o <<"=">> \o r : l \in Sides, r \in Sides }
          \cup { l \o <<"=">> \o r \o <<"=">> \o <<"1">> : l \in Sides, r \in Sides }

InitCalculus ==
    /\ display = <<>>
    /\ cursor = 0
    /\ result_display = <<>>
    /\ angle_mode = "radians"
    /\ history = <<>>
    /\ history_file = NoHistoryFile
    /\ clock = 0
    /\ memory_file = MissingFile
    /\ memory_register = Zero
    /\ memory = <<>>
    /\ last_op = InitOp
    /\ current_mode = "STANDARD"
    /\ number_system = "DEC"
    /\ word_size = "QWORD"
    /\ eval_call = NoEval
    /\ call \in { NoOperation(op, text) : op \in Operations, text \in Equations }

\* engine.solve_equation(equation)
solve_equation(library) ==
    /\ call.pc = "ready"
    /\ call.op = "solve_equation"
    /\ call' = operation_record(call.op, call.expression,
                                solve_body(call.expression, library))
    /\ UNCHANGED <<display, cursor, result_display, angle_mode, memory_register, memory,
                   history, memory_file, history_file, clock, last_op, current_mode,
                   number_system, word_size, eval_call>>

\* engine.differentiate(expression)
differentiate(library) ==
    /\ call.pc = "ready"
    /\ call.op = "differentiate"
    /\ call' = operation_record(call.op, call.expression,
                                calculus_body(call.expression, library))
    /\ UNCHANGED <<display, cursor, result_display, angle_mode, memory_register, memory,
                   history, memory_file, history_file, clock, last_op, current_mode,
                   number_system, word_size, eval_call>>

\* engine.integrate(expression), with limits or without
integrate(library) ==
    /\ call.pc = "ready"
    /\ call.op = "integrate"
    /\ call' = operation_record(call.op, call.expression,
                                calculus_body(call.expression, library))
    /\ UNCHANGED <<display, cursor, result_display, angle_mode, memory_register, memory,
                   history, memory_file, history_file, clock, last_op, current_mode,
                   number_system, word_size, eval_call>>

NextCalculus ==
    \/ \E library \in LibraryOutcomes : solve_equation(library)
    \/ \E library \in LibraryOutcomes : differentiate(library)
    \/ \E library \in LibraryOutcomes : integrate(library)

SpecCalculus == InitCalculus /\ [][NextCalculus]_vars

(***************************************************************************)
(* The memory file and the manager                                         *)
(***************************************************************************)
\* The item add_to_memory appended last.
LastItem == memory[Len(memory)]

\* The item list a manager constructed on the file would load.
PersistedItems(file) == load_memory(file).memory

\* C1: after memory_store, memory_add, memory_subtract or memory_clear has
\* changed the memory and returned, no write having failed, the memory file
\* holds exactly the register and the item list of the manager.
C1_FileHoldsMemory ==
    (last_op.name \in MemoryMutations /\ last_op.ok /\ last_op.io \in {"none", "ok"})
        => memory_file = memory_data(memory_register, memory)

C15_FailedWriteSwallowed ==
    /\ last_op.io \in {"open_failed", "dump_failed"} => last_op.ok
    /\ (last_op.name = "memory_store" /\ last_op.io \in {"open_failed", "dump_failed"})
           => /\ memory # <<>>
              /\ LastItem.value = float_of(result_display).v
              /\ LastItem.expression = display
              /\ memory_register = float_of(result_display).v
    /\ (last_op.name = "memory_clear" /\ last_op.io \in {"open_failed", "dump_failed"})
           => /\ memory = <<>>
              /\ memory_register = Zero

\* A store of a value other than the one the register held, whose write
\* failed after the file was opened.
C15_Witness ==
    /\ last_op.name = "memory_store"
    /\ last_op.io = "dump_failed"
    /\ memory_file = GarbageFile
    /\ memory # <<>>
    /\ memory_register = One
    /\ LastItem.value = One

\* C16: a store that takes effect appends exactly one item at the end of
\* the item list; recall, add and subtract leave the list as it is; a step
\* that changes the list is such a store, or a clear that empties it.
C16_MemoryAppendOnly ==
    [][/\ ((\E io \in IoOutcomes : memory_store_within(io, MaxItems + 1)) /\ last_op'.ok)
           => /\ Len(memory') = Len(memory) + 1
              /\ SubSeq(memory', 1, Len(memory)) = memory
       /\ (memory_recall \/ memory_add \/ memory_subtract) => memory' = memory
       /\ memory' # memory
           => \/ /\ last_op'.name = "memory_store"
                 /\ Len(memory') = Len(memory) + 1
                 /\ SubSeq(memory', 1, Len(memory)) = memory
              \/ /\ last_op'.name = "memory_clear"
                 /\ memory' = <<>>]_vars

\* An item was stored behind the item of the earlier session, and is
\* another one.
C16_Witness ==
    /\ last_op.name = "memory_store"
    /\ Len(memory) = 2
    /\ memory[1] = MemoryItem(One, <<"1">>, 0)
    /\ memory[2] # memory[1]

\* C18: a manager that loads the file a save has written gets the register
\* and the items (value, expression, timestamp), in their order, that the
\* manager held when save_memory ran: in a store the list with the new item
\* and the register not yet assigned, in a clear the empty list and 0.
C18_SaveLoadRoundTrip ==
    [][/\ (memory_store_within("ok", MaxItems + 1) /\ last_op'.ok)
           => load_memory(memory_file')
                  = [memory_register |-> memory_register, memory |-> memory']
       /\ memory_clear("ok")
           => load_memory(memory_file')
                  = [memory_register |-> memory_register', memory |-> memory']]_vars

\* The file written by a store holds two items that differ and a register
\* that is a float other than 1.
C18_Witness ==
    /\ last_op.name = "memory_store"
    /\ last_op.io = "ok"
    /\ Len(memory) = 2
    /\ memory[1] # memory[2]
    /\ load_memory(memory_file).memory = memory
    /\ load_memory(memory_file).memory_register.type = "float"
    /\ load_memory(memory_file).memory_register.n = 2

\* C28: the item a memory_store appends pairs the value with the expression
\* that has it: the expression of the item is not empty and its evaluation
\* returns the value of the item.
C28_ItemPairsValueWithExpression ==
    (last_op.name = "memory_store" /\ last_op.ok)
        => /\ LastItem.expression # <<>>
           /\ evaluate(strip(LastItem.expression), angle_mode).kind = "return"
           /\ number_text(evaluate(strip(LastItem.expression), angle_mode).value)
                  = number_text(LastItem.value)

\* C3: when load_memory fails on a malformed file, the manager is left with
\* the default register 0 and the default empty item list.
C3_DefaultsAfterFailedLoad ==
    (last_op.name = "init" /\ load_fails(memory_file))
        => memory_register = Zero /\ memory = <<>>

(***************************************************************************)
(* CalculatorEngine.evaluate on bounded sets of expressions                *)
(***************************************************************************)
MaxTokens == 3

MaxDepth == 2

\* Words and separators an expression is spelled with.
Tokens ==
    { <<"p", "i">>, <<"e">>, <<"p", "h", "i">>, <<"t", "a", "u">>, <<"i", "n", "f">>,
      <<"p", "i", "e">>, <<"x">>, <<"1">>, <<"+">>, <<" ">> }

RECURSIVE TokenStrings(_)
TokenStrings(n) ==
    IF n = 0 THEN {<<>>}
    ELSE LET shorter == TokenStrings(n - 1)
         IN shorter \cup { s \o t : s \in shorter, t \in Tokens }

Atoms == {<<>>, <<"0">>, <<"1">>, <<"x">>}

\* What an expression is wrapped in: a call of a function, parentheses, an
\* operator, a call that is not closed, a call written with a space.
Shapes ==
    { [pre |-> f \o <<"(">>, post |-> <<")">>] :
        f \in { trig_funcs[q] : q \in 1..Len(trig_funcs) }
              \cup {<<"a", "s", "i", "n">>, <<"s", "q", "r", "t">>, <<>>} }
    \cup { [pre |-> <<"1", "/">>, post |-> <<>>],
           [pre |-> <<>>, post |-> <<"+", "1">>],
           [pre |-> <<"s", "i", "n", "(">>, post |-> <<>>],
           [pre |-> <<"c", "o", "s", " ", "(">>, post |-> <<")">>] }

RECURSIVE Nested(_)
Nested(d) ==
    IF d = 0 THEN Atoms
    ELSE LET inner == Nested(d - 1)
         IN inner \cup { w.pre \o a \o w.post : w \in Shapes, a \in inner }

\* Expressions whose value is a whole number other than 0 and 1, and one
\* whose value is the imaginary unit.
Examples ==
    { <<"2", "+", "2">>, <<"4">>, <<"3", "/", "2">>, <<"I">>,
      <<"s", "i", "n", "(", "p", "i", ")">> }

EngineInputs == TokenStrings(MaxTokens) \cup Nested(MaxDepth) \cup Examples

\* A calculator after construction, about to evaluate one expression.
InitEngine ==
    /\ display = <<>>
    /\ cursor = 0
    /\ result_display = <<>>
    /\ angle_mode = "radians"
    /\ history = <<>>
    /\ history_file = NoHistoryFile
    /\ clock = 0
    /\ memory_file = MissingFile
    /\ memory_register = Zero
    /\ memory = <<>>
    /\ last_op = InitOp
    /\ current_mode = "STANDARD"
    /\ number_system = "DEC"
    /\ word_size = "QWORD"
    /\ eval_call = NoEval
    /\ call \in { NoCall(expression) : expression \in EngineInputs }

\* engine.evaluate(expression), as often as the caller likes.
call_evaluate ==
    /\ call' = remember(call, evaluate_call(call.expression, angle_mode))
    /\ UNCHANGED <<display, cursor, result_display, angle_mode, memory_register, memory,
                   history, memory_file, history_file, clock, last_op, current_mode,
                   number_system, word_size, eval_call>>

\* One call on each engine.
NextEngine ==
    \/ call.pc = "ready" /\ call_evaluate
    \/ toggle_angle_mode

SpecEngine == InitEngine /\ [][NextEngine]_vars

\* An engine that is called again and again with one expression.
InitRepeat ==
    /\ display = <<>>
    /\ cursor = 0
    /\ result_display = <<>>
    /\ angle_mode = "radians"
    /\ history = <<>>
    /\ history_file = NoHistoryFile
    /\ clock = 0
    /\ memory_file = MissingFile
    /\ memory_register = Zero
    /\ memory = <<>>
    /\ last_op = InitOp
    /\ current_mode = "STANDARD"
    /\ number_system = "DEC"
    /\ word_size = "QWORD"
    /\ eval_call = NoEval
    /\ call \in { NoCall(expression) : expression \in Nested(MaxDepth) }

NextRepeat ==
    \/ call_evaluate
    \/ toggle_angle_mode

SpecRepeat == InitRepeat /\ [][NextRepeat]_vars

(***************************************************************************)
(* Constant substitution                                                   *)
(***************************************************************************)
WordChars == Letters \cup Digits \cup {"_"}

ConstantNames == { constants[q].name : q \in 1..Len(constants) }

ConstantText(w) ==
    IF w \in ConstantNames
    THEN (CHOOSE c \in { constants[q] : q \in 1..Len(constants) } : c.name = w).text
    ELSE w

\* The expression cut into its words (maximal runs of word characters) and
\* the characters between them, each word that is the name of a constant
\* replaced by the text of the constant and every other word kept.
RECURSIVE whole_words_replaced(_, _)
whole_words_replaced(s, i) ==
    IF i > Len(s) THEN <<>>
    ELSE IF s[i] \in WordChars
         THEN ConstantText(SubSeq(s, i, run_end(s, i, WordChars) - 1))
                  \o whole_words_replaced(s, run_end(s, i, WordChars))
         ELSE <<s[i]>> \o whole_words_replaced(s, i + 1)

\* C7: the substitution replaces a constant name by its text exactly where
\* the name is a whole word; a word that only contains the name is kept
\* character for character.
C7_WordBounded ==
    call.pc = "done" => call.substituted = whole_words_replaced(call.expression, 1)

\* "pie+pi": the word pie is kept and the word pi is replaced.
C7_Witness ==
    /\ call.pc = "done"
    /\ call.expression = <<"p", "i", "e", "+", "p", "i">>
    /\ call.substituted = <<"p", "i", "e", "+">> \o constants[1].text

\* C8: the substitution pass applied to an expression it has already been
\* applied to leaves the expression unchanged.
C8_Idempotent ==
    call.pc = "done" => substitute_constants(call.substituted) = call.substituted

\* An expression in which two constants were replaced.
C8_Witness ==
    /\ call.pc = "done"
    /\ call.expression = <<"t", "a", "u", "+", "e">>
    /\ call.substituted = constants[4].text \o <<"+">> \o constants[2].text

(***************************************************************************)
(* The rewrite of trigonometric calls in degrees mode                      *)
(***************************************************************************)
TrigNames == { trig_funcs[q] : q \in 1..Len(trig_funcs) }

\* The index of the ')' that closes the parenthesis opened before i, or 0.
RECURSIVE matching_close(_, _, _)
matching_close(s, i, depth) ==
    IF i > Len(s) THEN 0
    ELSE IF s[i] = "(" THEN matching_close(s, i + 1, depth + 1)
    ELSE IF s[i] = ")"
         THEN (IF depth = 0 THEN i ELSE matching_close(s, i + 1, depth - 1))
    ELSE matching_close(s, i + 1, depth)

\* A call f(arg) of the function f at i: the name as the start of a word, a
\* parenthesis, a non-empty argument and the parenthesis that closes it.
call_at(f, s, i) ==
    /\ StartsWithAt(s, f \o <<"(">>, i)
    /\ (i = 1 \/ s[i - 1] \notin WordChars)
    /\ matching_close(s, i + Len(f) + 1, 0) > i + Len(f) + 1

\* Every call f(arg) of a trigonometric function, the ones inside arguments
\* included, turned into f(arg * pi/180).
RECURSIVE every_call_in_degrees(_, _)
every_call_in_degrees(s, i) ==
    IF i > Len(s) THEN <<>>
    ELSE IF \E f \in TrigNames : call_at(f, s, i)
         THEN LET f == CHOOSE g \in TrigNames : call_at(g, s, i)
                  open == i + Len(f)
                  close == matching_close(s, open + 1, 0)
              IN f \o <<"(">>
                   \o every_call_in_degrees(SubSeq(s, open + 1, close - 1), 1)
                   \o deg_factor \o <<")">>
                   \o every_call_in_degrees(s, close + 1)
         ELSE <<s[i]>> \o every_call_in_degrees(s, i + 1)

\* No name of a trigonometric function ends a longer word, as sin ends asin.
TrigNamesStartWords(s) ==
    \A i \in 1..Len(s) : \A f \in TrigNames :
        StartsWithAt(s, f \o <<"(">>, i) => (i = 1 \/ s[i - 1] \notin WordChars)

\* C5: in degrees mode every call f(arg) of sin, cos, tan, cot, sec or csc in
\* the expression is f(arg * pi/180) in the text handed to sympify.  The
\* expressions are the ones sympify parses in which these names start their
\* word.
C5_EveryTrigCallInDegrees ==
    (/\ call.pc = "done"
     /\ call.mode = "degrees"
     /\ sympify_evalf(call.substituted).ok
     /\ TrigNamesStartWords(call.substituted))
        => call.handed = every_call_in_degrees(call.substituted, 1)

\* A constant name that is a whole word of the expression.
HasConstant(s) ==
    \E i \in 1..Len(s) : \E w \in ConstantNames : word_match(w, s, i)

\* A call of a trigonometric function: its name as a whole word, then '('.
HasTrigCall(s) ==
    \E i \in 1..Len(s) : \E f \in TrigNames :
        /\ word_match(f, s, i)
        /\ StartsWithAt(s, <<"(">>, skip_space(s, i + Len(f)))

\* C6: an expression with no constant name and no call of a trigonometric
\* function is handed to sympify as the same text, and evaluates to the same
\* outcome, in degrees mode and in radians mode.
C6_ModeIndependent ==
    (call.pc = "done" /\ ~HasConstant(call.expression) /\ ~HasTrigCall(call.expression))
        => /\ evaluate_call(call.expression, "degrees").handed
                = evaluate_call(call.expression, "radians").handed
           /\ evaluate_call(call.expression, "degrees").outcome
                = evaluate_call(call.expression, "radians").outcome

(***************************************************************************)
(* The outcome of evaluate                                                 *)
(***************************************************************************)
\* C9: evaluate returns a value or raises MathError; an exception raised
\* inside its try block, of any type, is raised again as a MathError whose
\* message ends with the message of that exception.
C9_ReturnsOrMathError ==
    call.pc = "done"
        => \/ /\ call.outcome.kind = "return"
              /\ call.failure.type = ""
           \/ /\ call.outcome.kind = "raise"
              /\ call.outcome.type = "MathError"
              /\ call.failure.type # ""
              /\ call.outcome.msg
                     = <<"Error evaluating expression: ">> \o call.failure.msg

\* The failure is not one of the parser: the lookup of ComplexNumber.
C9_Witness ==
    /\ call.pc = "done"
    /\ call.failure.type = "AttributeError"
    /\ call.outcome.type = "MathError"
    /\ call.expression = <<"x">>

\* C10: evaluate("1/0") raises MathError: no value is returned, in either
\* angle mode.
C10_DivisionByZeroRaises ==
    (call.pc = "done" /\ call.expression = <<"1", "/", "0">>)
        => call.outcome.kind = "raise" /\ call.outcome.type = "MathError"

C10_Witness ==
    /\ call.pc = "done"
    /\ call.expression = <<"1", "/", "0">>
    /\ call.failure.type = "AttributeError"
    /\ call.outcome.kind = "raise"

(***************************************************************************)
(* Export and import of the history                                        *)
(***************************************************************************)
\* C4: when a non-empty history none of whose entries contains a blank line
\* has been exported, importing the exported file gives the same entries in
\* the same order.
C4_ExportImportRoundTrip ==
    (/\ last_op.name = "save_history"
     /\ last_op.ok
     /\ history # <<>>
     /\ \A q \in 1..Len(history) : ~Contains(history[q], BlankLine))
        => entries_of(history_file.text) = history

(***************************************************************************)
(* The type of what evaluate returns                                       *)
(***************************************************************************)
\* C11: when the value of the expression is a whole number, evaluate returns
\* it as an integer and not as a float.
C11_WholeValueIsInteger ==
    (/\ call.pc = "done"
     /\ call.outcome.kind = "return"
     /\ is_whole(call.outcome.value))
        => call.outcome.value.type = "int"

\* C12: when the value of the expression is not a real number (a complex
\* number, a symbolic value), evaluate returns it and does not raise.
C12_NonRealIsReturned ==
    (/\ call.pc = "done"
     /\ sympify_evalf(call.handed).ok
     /\ ~IsReal(sympify_evalf(call.handed).v))
        => /\ call.outcome.kind = "return"
           /\ call.outcome.value.type \in {"complex", "sympy"}

C14_ToggleChangesAngleModeOnly ==
    [][/\ angle_mode' # angle_mode
          => UNCHANGED <<display, result_display, history, memory, memory_register,
                         memory_file, current_mode, call>>
       /\ call' # call => call'.mode = angle_mode]_vars

\* After results were shown and recorded in radians the mode was switched,
\* and calculate evaluated in degrees.
C14_Witness ==
    /\ last_op.name = "calculate"
    /\ call.pc = "done"
    /\ call.mode = "degrees"
    /\ angle_mode = "degrees"
    /\ Len(history) = 2
    /\ result_display # <<>>
    /\ memory # <<>>

(***************************************************************************)
(* The history                                                             *)
(***************************************************************************)
\* C17: a calculate that succeeds appends to the history exactly one entry,
\* the text of the entry widget, " = " and the text it shows in the result
\* display, and leaves the earlier entries as they are; clear_history
\* empties the list; a step that changes the history is such a calculate, a
\* clear or the import of a file.
C17_HistoryAppendOnly ==
    [][/\ (calculate /\ last_op'.ok)
           => history' = Append(history, display \o <<" ", "=", " ">> \o result_display')
       /\ clear_history => history' = <<>>
       /\ history' # history
           => \/ /\ last_op'.name = "calculate"
                 /\ Len(history') = Len(history) + 1
                 /\ SubSeq(history', 1, Len(history)) = history
                 /\ history'[Len(history')] = display \o <<" ", "=", " ">> \o result_display'
              \/ /\ last_op'.name = "clear_history"
                 /\ history' = <<>>
              \/ last_op'.name = "load_history"]_vars

\* calculate added "1 = 1" behind an entry that was imported.
C17_Witness ==
    /\ last_op.name = "calculate"
    /\ last_op.ok
    /\ Len(history) = 2
    /\ history[1] = <<"a">>
    /\ history[2] = <<"1", " ", "=", " ", "1">>
    /\ result_display = <<"1">>

(***************************************************************************)
(* A calculate that fails                                                  *)
(***************************************************************************)
\* C19: when the evaluation fails in calculate, in the programmer mode or
\* in another one, the result display shows a text that starts with
\* "Error: ", the history, the memory register, the memory items, the angle
\* mode and the calculation mode are as before, and the handler has
\* returned: clear_display, toggle_angle_mode, clear_history and
\* switch_mode can run next.
C19_FailedCalculateLeavesState ==
    /\ [][(calculate /\ ~last_op'.ok)
            => /\ Len(result_display') >= 7
               /\ SubSeq(result_display', 1, 7) = ErrorText(<<>>)
               /\ UNCHANGED <<history, memory_register, memory, memory_file,
                              angle_mode, current_mode, display, cursor>>]_vars
    /\ []((last_op.name = "calculate" /\ ~last_op.ok)
              => /\ ENABLED clear_display
                 /\ ENABLED toggle_angle_mode
                 /\ ENABLED clear_history
                 /\ \A mode \in Modes : ENABLED switch_mode(mode))

\* In the programmer mode the entry "+" failed, after a result was recorded.
C19_Witness ==
    /\ last_op.name = "calculate"
    /\ ~last_op.ok
    /\ current_mode = "PROGRAMMER"
    /\ display = <<"+">>
    /\ SubSeq(result_display, 1, 7) = ErrorText(<<>>)
    /\ history # <<>>
    /\ memory # <<>>
    /\ angle_mode = "degrees"

(***************************************************************************)
(* The errors of solve_equation, differentiate and integrate               *)
(***************************************************************************)
\* C20: a call of solve_equation, differentiate or integrate returns a
\* result, or raises MathError with the message of the exception that the
\* parsing of a side or the library raised; an equation with a malformed
\* side or with two signs '=' raises MathError.
C20_ReturnsOrMathError ==
    /\ call.pc = "done"
           => \/ /\ call.outcome.kind = "return"
                 /\ call.failure.type = ""
              \/ /\ call.outcome.kind = "raise"
                 /\ call.outcome.type = "MathError"
                 /\ call.failure.type # ""
                 /\ call.outcome.msg = ErrorPrefix(call.op) \o call.failure.msg
    /\ (/\ call.pc = "done"
        /\ call.op = "solve_equation"
        /\ \/ index_of(call.expression, "=", index_of(call.expression, "=", 1) + 1) > 0
           \/ \E l \in Sides, r \in Sides :
                  /\ call.expression = l \o <<"=">> \o r
                  /\ {l, r} \cap {<<>>, <<"x", "+">>} # {})
           => call.outcome.type = "MathError"

\* The library raised on an equation whose two sides were parsed.
C20_Witness ==
    /\ call.pc = "done"
    /\ call.op = "solve_equation"
    /\ call.expression = <<"x", "=", "1">>
    /\ call.failure.type = "NotImplementedError"
    /\ call.outcome.type = "MathError"

(***************************************************************************)
(* The degrees rewrite, call by call                                       *)
(***************************************************************************)
\* The places of s where the name of a trigonometric function is followed by
\* '(': the starts of the matches the patterns can have.
TrigOpens(s) ==
    { o \in TrigNames \X (1..Len(s)) : StartsWithAt(s, o[1] \o <<"(">>, o[2]) }

\* The index of the first ')' of s after position p, or 0.
FirstCloseAfter(s, p) ==
    IF \E c \in (p + 1)..Len(s) : s[c] = ")"
    THEN CHOOSE c \in (p + 1)..Len(s) : s[c] = ")" /\ \A d \in (p + 1)..(c - 1) : s[d] # ")"
    ELSE 0

\* s with the factor put in right before the first ')' after position open,
\* and s itself when that ')' is right after open or there is none.
FactorBeforeFirstClose(s, open, close) ==
    IF close > open + 1
    THEN SubSeq(s, 1, close - 1) \o deg_factor \o SubSeq(s, close, Len(s))
    ELSE s

\* C25: in degrees mode, an expression with one call of a trigonometric
\* function is handed on with ' * pi/180' put in immediately before the
\* first ')' that follows the '(' of the call, also when the argument holds
\* a parenthesised sub-expression and that ')' closes the sub-expression;
\* a call f() with an empty argument is handed on unchanged.
C25_FactorBeforeFirstClose ==
    \A o \in TrigOpens(call.substituted) :
        (call.pc = "done" /\ call.mode = "degrees" /\ TrigOpens(call.substituted) = {o})
            => call.handed = FactorBeforeFirstClose(
                                 call.substituted, o[2] + Len(o[1]),
                                 FirstCloseAfter(call.substituted, o[2] + Len(o[1])))

\* sin((1)): the factor is inside the inner parentheses.
C25_Witness ==
    /\ call.pc = "done"
    /\ call.mode = "degrees"
    /\ call.expression = <<"s", "i", "n", "(", "(", "1", ")", ")">>
    /\ call.handed = <<"s", "i", "n", "(", "(", "1">> \o deg_factor \o <<")", ")">>

\* The number of places of s where t starts.
Occurrences(s, t) == Cardinality({ i \in 1..Len(s) : StartsWithAt(s, t, i) })

\* C26: in degrees mode no argument is multiplied by pi/180 twice: the text
\* handed to sympify holds no ' * pi/180 * pi/180', and it holds at most as
\* many factors ' * pi/180' as the expression holds calls of trigonometric
\* functions, nested calls such as sin(cos(1)) included.
C26_AtMostOneFactorPerCall ==
    (call.pc = "done" /\ call.mode = "degrees")
        => /\ ~Contains(call.handed, deg_factor \o deg_factor)
           /\ Occurrences(call.handed, deg_factor)
                  <= Cardinality(TrigOpens(call.substituted))

\* The names pi, e, phi and tau of the table.
NumberNames == ConstantNames \ {<<"i", "n", "f">>}

\* The places of s where the name w is a whole word.
WholeWordAt(w, s) == { i \in 1..Len(s) : word_match(w, s, i) }

\* C29 as stated: in both angle modes the text handed to sympify holds none
\* of the names pi, e, phi and tau as a whole word.
C29_NoConstantNameHanded ==
    call.pc = "done" => \A w \in NumberNames : WholeWordAt(w, call.handed) = {}

\* C29: the text handed to sympify holds none of the names e, phi and tau as
\* a whole word; in radians mode it holds no whole word pi either, and in
\* degrees mode every whole word pi it holds is the pi of a factor
\* ' * pi/180' that the rewrite of a trigonometric call put in after the
\* substitution.
C29_OnlyTheFactorsPi ==
    call.pc = "done"
        => /\ \A w \in NumberNames \ {<<"p", "i">>} : WholeWordAt(w, call.handed) = {}
           /\ \A i \in WholeWordAt(<<"p", "i">>, call.handed) :
                  /\ call.mode = "degrees"
                  /\ i > 3
                  /\ StartsWithAt(call.handed, deg_factor, i - 3)

\* sin(pi) in degrees mode: the pi of the expression is replaced, the pi of
\* the factor is handed on.
C29_Witness ==
    /\ call.pc = "done"
    /\ call.mode = "degrees"
    /\ call.expression = <<"s", "i", "n", "(", "p", "i", ")">>
    /\ call.handed = <<"s", "i", "n", "(">> \o constants[1].text \o deg_factor \o <<")">>

(***************************************************************************)
(* The programmer mode                                                     *)
(***************************************************************************)
\* Texts on the clipboard: one with a character eval is not to see, one
\* whose value needs nine bits, one whose value is not a whole number.
Clipboards ==
    { <<"1", "x", "2">>, <<"2", "5", "6">>, <<"3", "/", "2">> }

NextProgrammer ==
    \/ \E clipboard_content \in Clipboards : paste_to_display(clipboard_content)
    \/ calculate
    \/ clear_display
    \/ \E mode \in {"STANDARD", "PROGRAMMER"} : switch_mode(mode)
    \/ \E system \in SystemNames : change_number_system(system)
    \/ \E size \in WordSizes : change_word_size(size)

SpecProgrammer == InitModes /\ [][NextProgrammer]_vars

\* The characters of the expression that belong to the class
\* [0-9A-Fa-f+\-*/&|^~%<>()\s], in the order they have in the expression.
RECURSIVE InClass(_)
InClass(expression) ==
    IF expression = <<>> THEN <<>>
    ELSE (IF Head(expression) \in ProgrammerChars THEN <<Head(expression)>> ELSE <<>>)
             \o InClass(Tail(expression))

\* C21: in the programmer mode every character of the text calculate hands
\* to eval belongs to the class [0-9A-Fa-f+\-*/&|^~%<>()\s]; the text is the
\* text of the display without the characters outside the class, the
\* others in the order they have in the display.
C21_OnlyClassCharsEvaluated ==
    [][(calculate /\ current_mode = "PROGRAMMER")
           => /\ eval_call'.made
              /\ \A q \in 1..Len(eval_call'.text) : eval_call'.text[q] \in ProgrammerChars
              /\ eval_call'.text = InClass(display)]_vars

\* The display 1x2 was calculated: eval saw 12.
C21_Witness ==
    /\ last_op.name = "calculate"
    /\ current_mode = "PROGRAMMER"
    /\ display = <<"1", "x", "2">>
    /\ eval_call = [made |-> TRUE, text |-> <<"1", "2">>]
    /\ result_display = <<"1", "2">>

\* C22: the word size is kept and not enforced.  A calculate of the
\* programmer mode shows the value of the expression in the number system
\* selected, whatever the word size, and not reduced modulo 2^w; a change
\* of the word size changes nothing else.
C22_WordSizeNotEnforced ==
    /\ [][(calculate /\ current_mode = "PROGRAMMER" /\ last_op'.ok)
              => result_display'
                     = programmer_text(sum_from(InClass(display), 1), number_system)]_vars
    /\ [][word_size' # word_size
              => UNCHANGED <<display, cursor, result_display, history, memory,
                             memory_register, number_system, current_mode,
                             eval_call>>]_vars

\* With the word size of 8 bits, 256 is shown as 256.
C22_Witness ==
    /\ last_op.name = "calculate"
    /\ last_op.ok
    /\ current_mode = "PROGRAMMER"
    /\ word_size = "BYTE"
    /\ number_system = "DEC"
    /\ display = <<"2", "5", "6">>
    /\ result_display = <<"2", "5", "6">>

\* The number system a text is written in, told by its prefix.
SystemOf(text) ==
    IF Contains(text, <<"0", "x">>) THEN "hexadecimal"
    ELSE IF Contains(text, <<"0", "o">>) THEN "octal"
    ELSE IF Contains(text, <<"0", "b">>) THEN "binary"
    ELSE "decimal"

\* The number a text denotes, as a fraction <<n, d>>; <<0, 0>> for a text
\* that denotes none.
Denoted(text) ==
    IF SystemOf(text) = "decimal"
    THEN (IF float_of(text).ok /\ float_of(text).v.k = "num"
          THEN <<float_of(text).v.n, float_of(text).v.d>> ELSE <<0, 0>>)
    ELSE (IF shown_value(text).ok THEN <<shown_value(text).n, 1>> ELSE <<0, 0>>)

\* The text `between` that the change to another system gives denotes the
\* number of the text, and the change back gives the text again.
ThereAndBack(text, between) ==
    /\ Denoted(between) = Denoted(text)
    /\ converted(between, SystemOf(text)) = text

\* C30: for a numeric text in the result display, whichever mode computed
\* it, the change to another number system gives a text that denotes the
\* same number, and the change back to the system of the text gives the
\* text again.
C30_SystemRoundTrip ==
    (current_mode = "PROGRAMMER" /\ Denoted(result_display) # <<0, 0>>)
        => \A system \in SystemNames :
               ThereAndBack(result_display, converted(result_display, system))

(***************************************************************************)
(* The calculator with the handlers that edit the display                  *)
(***************************************************************************)
\* Texts on the clipboard: a digit, an operator, a space.
Pastes == { <<"1">>, <<"+">>, <<" ">> }

\* The functions of the keypads: '1/' and 'sin'.
Functions == { <<"1", "/">>, <<"s", "i", "n">> }

NextEdits ==
    \/ \E text \in Buttons : add_to_display(text)
    \/ \E clipboard_content \in Pastes : paste_to_display(clipboard_content)
    \/ \E func_name \in Functions : \E sel \in Selections(display) :
           insert_function(func_name, sel)
    \/ backspace
    \/ \E sel \in Selections(display) : negate(sel)
    \/ memory_recall
    \/ clear_entry

SpecEdits == InitModes /\ [][NextEdits]_vars

\* The handlers that end with the live evaluation of the display.
EditNames ==
    {"add_to_display", "insert_function", "backspace", "negate", "paste_to_display",
     "memory_recall"}

\* The characters evaluate_as_you_type returns on.
OpenEnds == {"+", "-", "*", "/", "^", "(", "%"}

\* The live evaluation of the text fails.
LiveFails(text, mode) == evaluate(text, mode).kind = "raise"

\* The result display shows the value of the text.
ShowsValueOf(shown, text, mode) ==
    /\ evaluate(text, mode).kind = "return"
    /\ shown = number_text(evaluate(text, mode).value)

C24_BackspaceDeletesLast ==
    [][backspace
           => display' = IF display = <<>> THEN <<>>
                         ELSE SubSeq(display, 1, Len(display) - 1)]_vars

\* C27: after an edit of the display the result display is blank or shows
\* the value of the text the display holds after the edit.
C27_ResultOfCurrentText ==
    [][(last_op'.name \in EditNames /\ display' # display)
           => \/ result_display' = <<>>
              \/ ShowsValueOf(result_display', strip(display'), angle_mode)]_vars

====
